---- MODULE Spec2Model ----
(***************************************************************************)
(* Model of the MCP Inspector client (client/src/App.tsx and its tabs).    *)
(*                                                                         *)
(*   SpecTask : the task handling of App.tsx (callTool with its poll loop, *)
(*              listTasks, cancelTask, the notifications/tasks/status      *)
(*              handler) and TasksTab.tsx, against a server that follows   *)
(*              the task state machine.                                    *)
(*   SpecHost : the pending sampling / elicitation requests of App.tsx.    *)
(*   SpecCorr : the Session / Request Correlator of spec section 4.2.      *)
(***************************************************************************)
EXTENDS Integers, Sequences, FiniteSets, TLC

\* ------------------------------------------------------------------ bounds
MaxCalls == 1     \* tool calls issued by the user (one poll loop each)
MaxPush  == 1     \* status notifications in flight at once
MaxList  == 1     \* tasks/list requests in flight at once
MaxCancels == 1   \* tasks/cancel requests in flight at once
MaxPolls == 2     \* the count of tasks/get requests of a loop saturates here
MaxRequests == 2  \* sampling and elicitation requests the server sends
MaxTimers == 1    \* pending 100 ms navigation timers
MaxCallbackCalls == 2  \* the count of calls of one callback saturates here
MaxIds == 3       \* requests issued on one Session
MaxRedirects == 2 \* the count of authorization redirects saturates here
MaxRuns == 3      \* runs of the AppRenderer effect with a client
MaxOpenRuns == 4  \* values taken by openAppRunIdRef of AppsTab
MaxPrefilled == 2 \* ids of the prefilled tool calls handed to AppsTab
MaxHeaderLen == 4 \* characters of a --header entry
MaxLoops == 2 \* tool calls whose poll loops may run at the same time

\* ----------------------------------------------------------------- values
NonTerminal == {"working", "input_required"}
Terminal    == {"completed", "failed", "cancelled"}
Status      == NonTerminal \cup Terminal

Calls   == 1..MaxCalls
TaskIds == 1..MaxCalls
Loops   == 1..MaxLoops
Slots   == Calls \cup Loops

NoTask == [taskId |-> 0, status |-> "none"]
Task(t, s) == [taskId |-> t, status |-> s]

Min(a, b) == IF a < b THEN a ELSE b

VARIABLES
  \* --- App.tsx state
  tasks,          \* useState<Task[]>             the task collection
  selectedTask,   \* useState<Task | null>        NoTask models null
  toolResult,     \* useState<CompatibilityCallToolResult | null>
  errors,         \* useState<Record<string, string | null>>, one entry per tab
  isPollingTask,  \* useState(false)
  calls,          \* one record per callTool invocation: its position
  lists,          \* number of listTasks invocations awaiting tasks/list
  cancels,        \* cancelTask invocations awaiting tasks/cancel, per taskId
  isCancelling,   \* TasksTab useState<string | null>, 0 models null
  cancelOk,       \* history: cancelTask succeeded while the task's poll loop ran
  \* --- the server and the transport
  srv,            \* the server's status of each task ("none": not created)
  pushes,         \* notifications in flight, in the order they were sent
  \* --- App.tsx state: requests of the server awaiting the user
  pendingSampleRequests,       \* useState<Array<PendingRequest & {resolve, reject}>>
  pendingElicitationRequests,  \* useState<Array<PendingElicitationRequest & ...>>
  nextRequestId,               \* useRef(0)
  activeTab,                   \* useState<string>, also window.location.hash
  lastToolCallOriginTab,       \* lastToolCallOriginTabRef.current
  serverCapabilities,          \* from useConnection; connected = FALSE models null
  navTimers,                   \* setTimeout(..., 100) callbacks not yet run
  resolveCalls,                \* history: calls of each entry's resolve
  rejectCalls,                 \* history: calls of each entry's reject / decline
  \* --- Session / Request Correlator (spec section 4.2)
  requestIdCounter,  \* the Session's monotonically increasing request-id counter
  pendingTable,      \* the ids of the PendingRequest entries
  atServer,          \* requests sent and not yet answered by the server
  inbound,           \* responses in flight to the Session
  settlements,       \* history: what each caller's promise was settled with
  sessionStatus,     \* disconnected | connecting | connected | error
  \* --- request metadata
  localStorage,      \* the "lastMetadata" item of the browser's localStorage
  metadata,          \* App.tsx useState<Record<string, string>>
  metadataEntries,   \* ToolsTab useState<{ id, key, value }[]>
  progressToken,     \* progressTokenRef.current
  sentMeta,          \* the _meta of the tools/call requests sent, in order
  \* --- OAuth debug flow
  authState,              \* App.tsx useState<AuthDebuggerState>
  isAuthDebuggerVisible,  \* App.tsx useState(false)
  resume,                 \* onOAuthDebugConnect: its position and currentState
  sessionTokens,          \* sessionStorage holds tokens for the server URL
  redirects,              \* history: authorization redirects issued
  \* --- resource reads
  reads,                  \* resources/read requests awaiting their response,
                          \* by the tab whose readResource prop sent them
  \* --- AppRenderer
  mcpClient,        \* the mcpClient prop; FALSE models null
  toolName,         \* tool.name of the tool prop
  toolInput,        \* the toolInput prop
  latestRunId,      \* latestRunIdRef.current
  runs,             \* one record per runTool invocation
  appToolResult,    \* AppRenderer's useState<CallToolResult | undefined>
  \* --- AppsTab
  appsTab,            \* the state and refs of AppsTab, one field each
  launches,           \* one record per value of openAppRunIdRef
  prefilledToolCall,  \* the prefilledToolCall prop; id 0 models null
  \* --- CLI
  cli                 \* one invocation of the CLI: its arguments, its position,
                      \* its exit code and what it wrote

taskVars == <<tasks, selectedTask, toolResult, errors, isPollingTask, calls,
              lists, cancels, isCancelling, cancelOk, srv, pushes>>

hostVars == <<pendingSampleRequests, pendingElicitationRequests, nextRequestId,
              activeTab, lastToolCallOriginTab, serverCapabilities, navTimers,
              resolveCalls, rejectCalls>>

corrVars == <<requestIdCounter, pendingTable, atServer, inbound, settlements,
              sessionStatus>>

metaVars == <<localStorage, metadata, metadataEntries, progressToken, sentMeta>>

authVars == <<authState, isAuthDebuggerVisible, resume, sessionTokens, redirects>>

readVars == <<reads>>

rendererVars == <<mcpClient, toolName, toolInput, latestRunId, runs,
                  appToolResult>>

appsVars == <<appsTab, launches, prefilledToolCall>>

cliVars == <<cli>>

vars == <<taskVars, hostVars, corrVars, metaVars, authVars, readVars, rendererVars, appsVars, cliVars>>

\* ------------------------------------------------- the task collection
HasTask(ts, t) == \E i \in DOMAIN ts : ts[i].taskId = t

\* prev.map((t) => (t.taskId === task.taskId ? task : t))
ReplaceTask(ts, task) ==
  [i \in DOMAIN ts |-> IF ts[i].taskId = task.taskId THEN task ELSE ts[i]]

\* mutant: the handler adds the snapshot without replacing the record
UpsertTaskAppend(ts, task) == Append(ts, task)

\* the setTasks updater of the notifications/tasks/status handler
UpsertTask(ts, task) ==
  IF HasTask(ts, task.taskId) THEN ReplaceTask(ts, task) ELSE <<task>> \o ts

\* tasks.find((t) => t.taskId === id), NoTask when there is none
FindTask(ts, t) ==
  IF HasTask(ts, t)
  THEN ts[CHOOSE i \in DOMAIN ts :
            /\ ts[i].taskId = t
            /\ \A j \in DOMAIN ts : ts[j].taskId = t => i <= j]
  ELSE NoTask

\* mutant: the poll loop's test forgets cancelled
IsTerminalStatusNoCancelled(s) == s = "completed" \/ s = "failed"

\* the terminal test of the poll loop
IsTerminalStatus(s) == s = "completed" \/ s = "failed" \/ s = "cancelled"

\* ------------------------------------------------------ request metadata
\* A metadata key is modelled by its parts: pad (whitespace around it),
\* hasSlash and prefix (the dot-separated labels before the first "/"), and
\* name (the dot-separated labels after the last "/", or the whole key).
Key(pad, hasSlash, prefix, name) ==
  [pad |-> pad, hasSlash |-> hasSlash, prefix |-> prefix, name |-> name]

PlainKey(name) == Key(FALSE, FALSE, <<>>, <<name>>)

ProgressTokenKey == PlainKey("progressToken")

\* key.trim()
Trim(key) == [key EXCEPT !.pad = FALSE]

\* META_PREFIX_LABEL_REGEX: of the labels used only "-bad" and "-x" fail it
LabelOk(label) == label \notin {"-bad", "-x"}

\* META_NAME_REGEX: the name begins and ends with an alphanumeric; every
\* label used ends with one
NameOk(name) == name # <<>> /\ Head(name) \notin {"-bad", "-x"}

RESERVED_NAMESPACE_LABELS == {"modelcontextprotocol", "mcp"}

\* splitLabels; <<>> models null
SplitLabels(segment) ==
  IF segment = <<>> \/ \E i \in DOMAIN segment : ~LabelOk(segment[i])
  THEN <<>> ELSE segment

\* isReservedMetaKey
IsReservedMetaKey(key) ==
  LET candidateSegment == IF key.hasSlash THEN key.prefix ELSE key.name
      labels == SplitLabels(candidateSegment)
  IN /\ Len(labels) >= 2
     /\ \E i \in 1..(Len(labels) - 1) :
          labels[i] \in RESERVED_NAMESPACE_LABELS /\ LabelOk(labels[i + 1])

\* hasValidMetaPrefix
HasValidMetaPrefix(key) == ~key.hasSlash \/ SplitLabels(key.prefix) # <<>>

\* hasValidMetaName
HasValidMetaName(key) == NameOk(key.name)

\* key !== ""
NonEmpty(key) == key.hasSlash \/ key.name # <<>>

\* the test both filters apply to a key
KeyAllowed(key) ==
  ~IsReservedMetaKey(key) /\ HasValidMetaPrefix(key) /\ HasValidMetaName(key)

\* a Record<string, ...> is a function from a set of keys
EmptyMap == [k \in {} |-> 0]
Restrict(map, keys) == [k \in keys |-> map[k]]

\* { ...map, ...over }
Overlay(map, over) ==
  [k \in DOMAIN map \cup DOMAIN over |->
     IF k \in DOMAIN over THEN over[k] ELSE map[k]]

\* mutant: every key is kept
FilterKeepsAll(md) == md

\* filterReservedMetadata
FilterReservedMetadata(md) == Restrict(md, {k \in DOMAIN md : KeyAllowed(k)})

\* the "lastMetadata" item: absent, not JSON for an object, or an object
NoItem == [kind |-> "absent", value |-> EmptyMap]
BadItem == [kind |-> "garbage", value |-> EmptyMap]
Item(md) == [kind |-> "json", value |-> md]

\* the initializer of the metadata state
LoadMetadata(item) ==
  IF item.kind = "json" THEN FilterReservedMetadata(item.value) ELSE EmptyMap

\* the metadata.reduce of the Run Tool button: empty and disallowed keys are
\* dropped, keys are trimmed, a later entry overwrites an earlier one
RECURSIVE ToolMetadata(_)
ToolMetadata(entries) ==
  IF entries = <<>> THEN EmptyMap
  ELSE LET n == Len(entries)
           acc == ToolMetadata(SubSeq(entries, 1, n - 1))
           trimmedKey == Trim(entries[n].key)
       IN IF NonEmpty(trimmedKey) /\ KeyAllowed(trimmedKey)
          THEN Overlay(acc, [k \in {trimmedKey} |-> entries[n].value])
          ELSE acc

\* the Run Tool button is disabled while an entry has a reserved or invalid key
RunToolDisabled(entries) ==
  \E i \in DOMAIN entries :
    LET trimmedKey == Trim(entries[i].key) IN
      /\ NonEmpty(trimmedKey)
      /\ ~KeyAllowed(trimmedKey)

\* mutant: the general metadata is spread last
MergedMetadataGeneralWins(general, token, toolMetadata) ==
  Overlay(Overlay(toolMetadata, [k \in {ProgressTokenKey} |-> token]), general)

\* mergedMetadata of callTool
MergedMetadata(general, token, toolMetadata) ==
  Overlay(Overlay(general, [k \in {ProgressTokenKey} |-> token]), toolMetadata)

\* the objects handed to handleMetadataChange or found in localStorage
MetadataInputs ==
  {EmptyMap,
   (PlainKey("a") :> 1) @@ (PlainKey("b") :> 2),
   (PlainKey("a") :> 1) @@ (Key(FALSE, TRUE, <<"mcp", "dev">>, <<"x">>) :> 2),
   (PlainKey("b") :> 2) @@ (Key(FALSE, TRUE, <<"-bad">>, <<"x">>) :> 1)
     @@ (Key(FALSE, TRUE, <<"ok", "dev">>, <<"-x">>) :> 3),
   (ProgressTokenKey :> 3) @@ (PlainKey("a") :> 1),
   (Key(TRUE, FALSE, <<>>, <<"b">>) :> 2)
     @@ (Key(FALSE, FALSE, <<>>, <<"mcp", "x">>) :> 1)}

StoredItems == {NoItem, BadItem} \cup {Item(md) : md \in MetadataInputs}

Entry(key, value) == [key |-> key, value |-> value]

\* the metadata entries typed into ToolsTab
EntriesInputs ==
  {<<>>,
   <<Entry(PlainKey("b"), 3)>>,
   <<Entry(Key(TRUE, FALSE, <<>>, <<"b">>), 3),
     Entry(Key(FALSE, FALSE, <<>>, <<>>), 1)>>,
   <<Entry(ProgressTokenKey, 2), Entry(PlainKey("b"), 1),
     Entry(PlainKey("b"), 3)>>,
   <<Entry(Key(FALSE, TRUE, <<"mcp", "dev">>, <<"x">>), 1)>>}

InitMeta(item) ==
  /\ localStorage = item
  /\ metadata = LoadMetadata(item)
  /\ metadataEntries = <<>>
  /\ progressToken = 0
  /\ sentMeta = <<>>

\* handleMetadataChange
HandleMetadataChange(newMetadata) ==
  LET sanitizedMetadata == FilterReservedMetadata(newMetadata) IN
    /\ metadata' = sanitizedMetadata
    /\ localStorage' = Item(sanitizedMetadata)
    /\ UNCHANGED <<metadataEntries, progressToken, sentMeta>>
    /\ UNCHANGED <<taskVars, hostVars, corrVars, authVars, readVars, rendererVars, appsVars, cliVars>>

\* the metadata entries of ToolsTab are edited
SetMetadataEntries(entries) ==
  /\ entries # metadataEntries
  /\ metadataEntries' = entries
  /\ UNCHANGED <<localStorage, metadata, progressToken, sentMeta>>
  /\ UNCHANGED <<taskVars, hostVars, corrVars, authVars, readVars, rendererVars, appsVars, cliVars>>

\* ------------------------------------------------------------ tool results
\* kind tells which setToolResult call produced the result; text holds the
\* parts of the message text that come from the tasks/get response
NoResult == [kind |-> "null", isError |-> FALSE, status |-> "none",
             text |-> <<>>]
Result(k, e, s) == [kind |-> k, isError |-> e, status |-> s, text |-> <<>>]

\* taskStatus.statusMessage: absent, or a message of the server
StatusMessages == {"", "quota exceeded"}

\* mutant: the status message is left out of the text
TaskEndedTextNoMessage(status, statusMessage) ==
  <<"Task", status, "No additional information">>

\* `Task ${status}: ${statusMessage || "No additional information"}`
TaskEndedText(status, statusMessage) ==
  <<"Task", status,
    IF statusMessage # "" THEN statusMessage ELSE "No additional information">>

\* `Task status: ${status}${statusMessage ? ` - ${statusMessage}` : ""}. Polling...`
PollingText(status, statusMessage) ==
  IF statusMessage # "" THEN <<"Task status", status, statusMessage, "Polling">>
  ELSE <<"Task status", status, "Polling">>

\* the result set in the failed / cancelled branch
TaskEndedResult(status, statusMessage) ==
  [Result("taskEnded", TRUE, status)
     EXCEPT !.text = TaskEndedText(status, statusMessage)]

\* the result set in the branch of a non-terminal status
PollingResult(status, statusMessage) ==
  [Result("polling", FALSE, status)
     EXCEPT !.text = PollingText(status, statusMessage)]

IdleCall == [pc |-> "idle", asTask |-> FALSE, taskId |-> 0, resp |-> "none",
             msg |-> "", sawTerminal |-> FALSE, polls |-> 0]

\* void listTasks(): the tasks/list request leaves at once
CanList == lists < MaxList
VoidListTasks == lists + 1

\* a poll loop is in progress for call c
PollActive(c) == calls[c].pc \in {"sleep", "getWait", "resultWait"}

InitTask ==
  /\ tasks = <<>>
  /\ selectedTask = NoTask
  /\ toolResult = NoResult
  /\ errors = [resources |-> "null", prompts |-> "null", tools |-> "null",
               tasks |-> "null"]
  /\ isPollingTask = FALSE
  /\ calls = [c \in Slots |-> IdleCall]
  /\ lists = 0
  /\ cancels = [t \in Slots |-> FALSE]
  /\ isCancelling = 0
  /\ cancelOk = [t \in Slots |-> FALSE]
  /\ srv = [t \in Slots |-> "none"]
  /\ pushes = <<>>

\* ------------------------------------------------------------- the server
\* the tasks the server lists, in id order
RECURSIVE Snapshot(_)
Snapshot(n) ==
  IF n = 0 THEN <<>>
  ELSE IF srv[n] = "none" THEN Snapshot(n - 1)
       ELSE Append(Snapshot(n - 1), Task(n, srv[n]))

Emit(push, msg) ==
  IF push /\ Len(pushes) < MaxPush THEN Append(pushes, msg) ELSE pushes

\* the server answers tools/call: a failure, a direct result, or (when the
\* request carried the task parameter) a task reference to a new task
ServerHandleCall(c) ==
  /\ calls[c].pc = "callWait" /\ calls[c].resp = "none"
  /\ \/ /\ \E r \in {"error", "direct"} :
             calls' = [calls EXCEPT ![c].resp = r]
        /\ UNCHANGED <<srv, pushes>>
     \/ /\ calls[c].asTask
        /\ calls' = [calls EXCEPT ![c].resp = "task", ![c].taskId = c]
        /\ srv' = [srv EXCEPT ![c] = "working"]
        /\ UNCHANGED pushes
  /\ UNCHANGED <<tasks, selectedTask, toolResult, errors, isPollingTask,
                 lists, cancels, isCancelling, cancelOk>>
  /\ UNCHANGED <<hostVars, corrVars, metaVars, authVars, readVars, rendererVars, appsVars, cliVars>>

\* the task moves along working <-> input_required -> terminal
ServerStep(t, s, push) ==
  /\ srv[t] \in NonTerminal
  /\ s # srv[t]
  /\ srv' = [srv EXCEPT ![t] = s]
  /\ pushes' = Emit(push, Task(t, s))
  /\ UNCHANGED <<tasks, selectedTask, toolResult, errors, isPollingTask,
                 calls, lists, cancels, isCancelling, cancelOk>>
  /\ UNCHANGED <<hostVars, corrVars, metaVars, authVars, readVars, rendererVars, appsVars, cliVars>>

\* tasks/get: the task's current status, or a request failure
ServerHandleGet(c) ==
  /\ calls[c].pc = "getWait" /\ calls[c].resp = "none"
  /\ \E r \in {"error", srv[calls[c].taskId]}, m \in StatusMessages :
       calls' = [calls EXCEPT ![c].resp = r,
                              ![c].msg = IF r = "error" THEN "" ELSE m]
  /\ UNCHANGED <<tasks, selectedTask, toolResult, errors, isPollingTask,
                 lists, cancels, isCancelling, cancelOk, srv, pushes>>
  /\ UNCHANGED <<hostVars, corrVars, metaVars, authVars, readVars, rendererVars, appsVars, cliVars>>

\* tasks/result: the payload, or a request failure
ServerHandleResult(c) ==
  /\ calls[c].pc = "resultWait" /\ calls[c].resp = "none"
  /\ \E r \in {"error", "result"} :
       calls' = [calls EXCEPT ![c].resp = r]
  /\ UNCHANGED <<tasks, selectedTask, toolResult, errors, isPollingTask,
                 lists, cancels, isCancelling, cancelOk, srv, pushes>>
  /\ UNCHANGED <<hostVars, corrVars, metaVars, authVars, readVars, rendererVars, appsVars, cliVars>>

\* ------------------------------------------------------------- callTool
\* ToolsTab's callTool prop (clearError, setToolResult(null)) and callTool up
\* to its first await: the originating tab is noted, tools/call is sent
CallTool(c, runAsTask) ==
  /\ calls[c].pc = "idle"
  /\ \A d \in Slots : d < c => calls[d].pc # "idle"
  /\ ~RunToolDisabled(metadataEntries)
  /\ sentMeta' = Append(sentMeta,
                        MergedMetadata(metadata, progressToken,
                                       ToolMetadata(metadataEntries)))
  /\ progressToken' = progressToken + 1
  /\ UNCHANGED <<localStorage, metadata, metadataEntries>>
  /\ errors' = [errors EXCEPT !.tools = "null"]
  /\ toolResult' = NoResult
  /\ calls' = [calls EXCEPT ![c].pc = "callWait", ![c].asTask = runAsTask]
  /\ UNCHANGED <<tasks, selectedTask, isPollingTask, lists, cancels,
                 isCancelling, cancelOk, srv, pushes>>
  /\ lastToolCallOriginTab' = activeTab
  /\ UNCHANGED <<pendingSampleRequests, pendingElicitationRequests,
                 nextRequestId, activeTab, serverCapabilities, navTimers,
                 resolveCalls, rejectCalls>>
  /\ UNCHANGED <<corrVars, authVars, readVars, rendererVars, appsVars, cliVars>>

\* mutant: any response that is not a failure is taken for a task reference
IsTaskResultAny(res) == res # "error"

\* isTaskResult: the response is { task: { taskId, ... } }
IsTaskResult(res) == res = "task"

\* callTool after the tools/call response: the task branch enters the poll
\* loop, a direct result is set, a failure goes through the outer catch
CallToolResponse(c) ==
  /\ calls[c].pc = "callWait" /\ calls[c].resp # "none"
  /\ errors' = [errors EXCEPT !.tools = "null"]
  /\ IF calls[c].resp = "error"
     THEN /\ toolResult' = Result("outerError", TRUE, "none")
          /\ calls' = [calls EXCEPT ![c].pc = "done", ![c].resp = "none"]
          /\ UNCHANGED isPollingTask
     ELSE IF calls[c].asTask /\ IsTaskResult(calls[c].resp)
     THEN /\ isPollingTask' = TRUE
          /\ toolResult' = Result("created", FALSE, "none")
          /\ calls' = [calls EXCEPT ![c].pc = "sleep", ![c].resp = "none"]
     ELSE /\ toolResult' = Result("direct", FALSE, "none")
          /\ calls' = [calls EXCEPT ![c].pc = "done", ![c].resp = "none"]
          /\ UNCHANGED isPollingTask
  /\ UNCHANGED <<tasks, selectedTask, lists, cancels, isCancelling, cancelOk,
                 srv, pushes>>
  /\ UNCHANGED <<hostVars, corrVars, metaVars, authVars, readVars, rendererVars, appsVars, cliVars>>

\* the poll loop's setTimeout(resolve, pollInterval) fires and tasks/get is sent
PollTimer(c) ==
  /\ calls[c].pc = "sleep"
  /\ calls' = [calls EXCEPT ![c].pc = "getWait", ![c].resp = "none",
                            ![c].polls = Min(@ + 1, MaxPolls)]
  /\ UNCHANGED <<tasks, selectedTask, toolResult, errors, isPollingTask,
                 lists, cancels, isCancelling, cancelOk, srv, pushes>>
  /\ UNCHANGED <<hostVars, corrVars, metaVars, authVars, readVars, rendererVars, appsVars, cliVars>>

\* history: the loop of call c has received a tasks/get response whose
\* status is completed, failed or cancelled
SawTerminal(c) ==
  calls[c].sawTerminal \/ (calls[c].pc = "getWait" /\ calls[c].resp \in Terminal)

\* the end of callTool once taskCompleted is set: the loop is left
LeaveLoop(c, result) ==
  /\ toolResult' = result
  /\ isPollingTask' = FALSE
  /\ errors' = [errors EXCEPT !.tools = "null"]
  /\ calls' = [calls EXCEPT ![c].pc = "done", ![c].resp = "none",
                            ![c].msg = "",
                            ![c].sawTerminal = SawTerminal(c)]

\* mutant: the catch logs the error and lets the loop poll again
PollCatchRetry(c) ==
  /\ calls' = [calls EXCEPT ![c].pc = "sleep", ![c].resp = "none",
                            ![c].msg = "",
                            ![c].sawTerminal = SawTerminal(c)]
  /\ UNCHANGED <<toolResult, isPollingTask, errors, lists>>

\* the catch of the poll loop: the error becomes the result, the loop ends
PollCatch(c) ==
  /\ LeaveLoop(c, Result("pollError", TRUE, "none"))
  /\ UNCHANGED lists

\* the poll loop body after the tasks/get response
PollResponse(c) ==
  /\ calls[c].pc = "getWait" /\ calls[c].resp # "none"
  /\ LET st == calls[c].resp IN
     IF st = "error"
     THEN PollCatch(c)
     ELSE IF IsTerminalStatus(st)
     THEN IF st = "completed"
          THEN /\ calls' = [calls EXCEPT ![c].pc = "resultWait",
                                         ![c].resp = "none",
                                         ![c].msg = "",
                                         ![c].sawTerminal = SawTerminal(c)]
               /\ UNCHANGED <<toolResult, isPollingTask, errors, lists>>
          ELSE /\ CanList
               /\ LeaveLoop(c, TaskEndedResult(st, calls[c].msg))
               /\ lists' = VoidListTasks
     ELSE /\ CanList
          /\ toolResult' = PollingResult(st, calls[c].msg)
          /\ lists' = VoidListTasks
          /\ calls' = [calls EXCEPT ![c].pc = "sleep", ![c].resp = "none",
                                    ![c].msg = "",
                                    ![c].sawTerminal = SawTerminal(c)]
          /\ UNCHANGED <<isPollingTask, errors>>
  /\ UNCHANGED <<tasks, selectedTask, cancels, isCancelling, cancelOk,
                 srv, pushes>>
  /\ UNCHANGED <<hostVars, corrVars, metaVars, authVars, readVars, rendererVars, appsVars, cliVars>>

\* mutant: the payload is set and the loop polls again
TaskResultResponseRepolls(c) ==
  /\ calls[c].pc = "resultWait" /\ calls[c].resp # "none"
  /\ toolResult' = Result("result", FALSE, "completed")
  /\ calls' = [calls EXCEPT ![c].pc = "sleep", ![c].resp = "none"]
  /\ UNCHANGED <<tasks, selectedTask, errors, isPollingTask, lists, cancels,
                 isCancelling, cancelOk, srv, pushes>>
  /\ UNCHANGED <<hostVars, corrVars, metaVars, authVars, readVars, rendererVars, appsVars, cliVars>>

\* the completed branch after the tasks/result response
TaskResultResponse(c) ==
  /\ calls[c].pc = "resultWait" /\ calls[c].resp # "none"
  /\ IF calls[c].resp = "error"
     THEN PollCatch(c)
     ELSE /\ CanList
          /\ LeaveLoop(c, Result("result", FALSE, "completed"))
          /\ lists' = VoidListTasks
  /\ UNCHANGED <<tasks, selectedTask, cancels, isCancelling, cancelOk,
                 srv, pushes>>
  /\ UNCHANGED <<hostVars, corrVars, metaVars, authVars, readVars, rendererVars, appsVars, cliVars>>

\* ------------------------------------------------------- onNotification
\* the notifications/tasks/status branch, for the oldest push in flight
OnNotification ==
  /\ pushes # <<>>
  /\ LET task == Head(pushes) IN
       /\ tasks' = UpsertTask(tasks, task)
       /\ selectedTask' = IF selectedTask.taskId = task.taskId
                          THEN task ELSE selectedTask
  /\ pushes' = Tail(pushes)
  /\ UNCHANGED <<toolResult, errors, isPollingTask, calls, lists, cancels,
                 isCancelling, cancelOk, srv>>
  /\ UNCHANGED <<hostVars, corrVars, metaVars, authVars, readVars, rendererVars, appsVars, cliVars>>

\* ------------------------------------------------------------ listTasks
\* TasksTab's listTasks prop: clearError("tasks"), then listTasks()
ListTasksClick ==
  /\ CanList
  /\ errors' = [errors EXCEPT !.tasks = "null"]
  /\ lists' = VoidListTasks
  /\ UNCHANGED <<tasks, selectedTask, toolResult, isPollingTask, calls,
                 cancels, isCancelling, cancelOk, srv, pushes>>
  /\ UNCHANGED <<hostVars, corrVars, metaVars, authVars, readVars, rendererVars, appsVars, cliVars>>

\* listTasks after its await: the tasks/list response carries the server's
\* tasks, or the request failed
ListTasksResponse(ok) ==
  /\ lists > 0
  /\ IF ok
     THEN /\ tasks' = Snapshot(Cardinality(DOMAIN srv))
          /\ errors' = [errors EXCEPT !.tasks = "null"]
     ELSE /\ errors' = [errors EXCEPT !.tasks = "err"]
          /\ UNCHANGED tasks
  /\ lists' = lists - 1
  /\ UNCHANGED <<selectedTask, toolResult, isPollingTask, calls, cancels,
                 isCancelling, cancelOk, srv, pushes>>
  /\ UNCHANGED <<hostVars, corrVars, metaVars, authVars, readVars, rendererVars, appsVars, cliVars>>

\* TasksTab's clearTasks prop
ClearTasks ==
  /\ tasks # <<>>
  /\ tasks' = <<>>
  /\ UNCHANGED <<selectedTask, toolResult, errors, isPollingTask, calls,
                 lists, cancels, isCancelling, cancelOk, srv, pushes>>
  /\ UNCHANGED <<hostVars, corrVars, metaVars, authVars, readVars, rendererVars, appsVars, cliVars>>

\* TasksTab's setSelectedTask prop, from a click on a list item
SelectTask(i) ==
  /\ i \in DOMAIN tasks
  /\ selectedTask # tasks[i]
  /\ errors' = [errors EXCEPT !.tasks = "null"]
  /\ selectedTask' = tasks[i]
  /\ UNCHANGED <<tasks, toolResult, isPollingTask, calls, lists, cancels,
                 isCancelling, cancelOk, srv, pushes>>
  /\ UNCHANGED <<hostVars, corrVars, metaVars, authVars, readVars, rendererVars, appsVars, cliVars>>

\* ----------------------------------------------------------- cancelTask
\* TasksTab: selectedTask ? tasks.find(...) || selectedTask : null
DisplayedTask ==
  IF selectedTask = NoTask THEN NoTask
  ELSE IF HasTask(tasks, selectedTask.taskId)
       THEN FindTask(tasks, selectedTask.taskId)
       ELSE selectedTask

\* the Cancel Task button is rendered and enabled
CancelOffered(t) ==
  /\ DisplayedTask.taskId = t
  /\ DisplayedTask.status = "working" \/ DisplayedTask.status = "input_required"
  /\ isCancelling # t

\* TasksTab.handleCancel up to App.cancelTask's await: tasks/cancel is sent
HandleCancel(t) ==
  /\ CancelOffered(t)
  /\ ~cancels[t]
  /\ Cardinality({u \in TaskIds : cancels[u]}) < MaxCancels
  /\ isCancelling' = t
  /\ cancels' = [cancels EXCEPT ![t] = TRUE]
  /\ UNCHANGED <<tasks, selectedTask, toolResult, errors, isPollingTask,
                 calls, lists, cancelOk, srv, pushes>>
  /\ UNCHANGED <<hostVars, corrVars, metaVars, authVars, readVars, rendererVars, appsVars, cliVars>>

\* what the server answers to tasks/cancel: a running task becomes cancelled
\* and is returned; for a task that is already terminal the server answers
\* with an error, or with the task as it is; or the request fails
CancelReply(t) ==
  {"error"} \cup (IF srv[t] \in NonTerminal THEN {"cancelled"} ELSE {srv[t]})

\* App.cancelTask after its await, then handleCancel's finally.  The
\* selectedTask that cancelTask compares with is the one of the render in
\* which the button was clicked, and that one has taskId t.
CancelTaskResponse(t, response, push) ==
  /\ cancels[t]
  /\ response \in CancelReply(t)
  /\ IF response = "error"
     THEN /\ errors' = [errors EXCEPT !.tasks = "err"]
          /\ UNCHANGED <<tasks, selectedTask, cancelOk, srv, pushes>>
     ELSE /\ srv' = [srv EXCEPT ![t] = response]
          /\ pushes' = IF srv[t] # response
                       THEN Emit(push, Task(t, response)) ELSE pushes
          /\ tasks' = ReplaceTask(tasks, Task(t, response))
          /\ selectedTask' = Task(t, response)
          /\ errors' = [errors EXCEPT !.tasks = "null"]
          /\ cancelOk' = [cancelOk EXCEPT ![t] =
                            @ \/ \E c \in Calls :
                                   calls[c].taskId = t /\ PollActive(c)]
  /\ isCancelling' = 0
  /\ cancels' = [cancels EXCEPT ![t] = FALSE]
  /\ UNCHANGED <<toolResult, isPollingTask, calls, lists>>
  /\ UNCHANGED <<hostVars, corrVars, metaVars, authVars, readVars, rendererVars, appsVars, cliVars>>

\* ------------------------------------- pending sampling / elicitation
Tabs == {"resources", "tools", "ping", "sampling", "elicitations", "metadata"}
RequestIds == 0..(MaxRequests - 1)

NoCapabilities == [connected |-> FALSE, resources |-> FALSE, tools |-> FALSE]

\* the validTabs list of navigateToOriginatingTab and handleResolveElicitation
ValidTabs(caps) ==
  (IF caps.resources THEN {"resources"} ELSE {})
    \cup (IF caps.tools THEN {"tools"} ELSE {})
    \cup {"ping", "sampling", "elicitations"}

\* the defaultTab of the serverCapabilities effect
DefaultTab(caps) ==
  IF caps.resources THEN "resources" ELSE IF caps.tools THEN "tools" ELSE "ping"

InitHost ==
  /\ pendingSampleRequests = <<>>
  /\ pendingElicitationRequests = <<>>
  /\ nextRequestId = 0
  /\ activeTab = "resources"
  /\ lastToolCallOriginTab = "resources"
  /\ serverCapabilities = NoCapabilities
  /\ navTimers = <<>>
  /\ resolveCalls = [i \in RequestIds |-> 0]
  /\ rejectCalls = [i \in RequestIds |-> 0]

HasEntry(list, id) == \E i \in DOMAIN list : list[i].id = id

\* prev.find((r) => r.id === id), for a list that has such an entry
FindEntry(list, id) ==
  list[CHOOSE i \in DOMAIN list :
         list[i].id = id /\ \A j \in DOMAIN list : list[j].id = id => i <= j]

\* mutant: the updater returns the list with the settled entry still in it
RemoveByIdKeep(list, id) == list

\* prev.filter((r) => r.id !== id)
RemoveById(list, id) == SelectSeq(list, LAMBDA r : r.id # id)

\* mutant: the callback of every entry is invoked
CalledAll(f, id) == [i \in DOMAIN f |-> Min(f[i] + 1, MaxCallbackCalls)]

\* request.resolve(...) / request.reject(...) of the entry found by id
Called(f, id) == [f EXCEPT ![id] = Min(@ + 1, MaxCallbackCalls)]

\* useConnection connects and the serverCapabilities effect corrects the tab
Connect(caps) ==
  /\ ~serverCapabilities.connected
  /\ caps.connected
  /\ serverCapabilities' = caps
  /\ activeTab' = IF activeTab \in ValidTabs(caps) THEN activeTab
                  ELSE DefaultTab(caps)
  /\ UNCHANGED <<pendingSampleRequests, pendingElicitationRequests,
                 nextRequestId, lastToolCallOriginTab, navTimers,
                 resolveCalls, rejectCalls>>
  /\ UNCHANGED <<taskVars, corrVars, metaVars, authVars, readVars, rendererVars, appsVars, cliVars>>

\* the Tabs onValueChange handler
SetActiveTab(tab) ==
  /\ serverCapabilities.connected
  /\ tab # activeTab
  /\ activeTab' = tab
  /\ UNCHANGED <<pendingSampleRequests, pendingElicitationRequests,
                 nextRequestId, lastToolCallOriginTab, serverCapabilities,
                 navTimers, resolveCalls, rejectCalls>>
  /\ UNCHANGED <<taskVars, corrVars, metaVars, authVars, readVars, rendererVars, appsVars, cliVars>>

\* readResource / getPrompt up to their await: the originating tab is noted
ReadResource ==
  /\ serverCapabilities.connected
  /\ lastToolCallOriginTab # activeTab
  /\ lastToolCallOriginTab' = activeTab
  /\ UNCHANGED <<pendingSampleRequests, pendingElicitationRequests,
                 nextRequestId, activeTab, serverCapabilities, navTimers,
                 resolveCalls, rejectCalls>>
  /\ UNCHANGED <<taskVars, corrVars, metaVars, authVars, readVars, rendererVars, appsVars, cliVars>>

\* onPendingRequest: a sampling request of the server arrives
OnPendingRequest ==
  /\ serverCapabilities.connected
  /\ nextRequestId < MaxRequests
  /\ pendingSampleRequests' =
       Append(pendingSampleRequests,
              [id |-> nextRequestId, originatingTab |-> lastToolCallOriginTab])
  /\ nextRequestId' = nextRequestId + 1
  /\ activeTab' = "sampling"
  /\ UNCHANGED <<pendingElicitationRequests, lastToolCallOriginTab,
                 serverCapabilities, navTimers, resolveCalls, rejectCalls>>
  /\ UNCHANGED <<taskVars, corrVars, metaVars, authVars, readVars, rendererVars, appsVars, cliVars>>

\* onElicitationRequest: an elicitation request of the server arrives
OnElicitationRequest ==
  /\ serverCapabilities.connected
  /\ nextRequestId < MaxRequests
  /\ pendingElicitationRequests' =
       Append(pendingElicitationRequests,
              [id |-> nextRequestId,
               request |-> [id |-> nextRequestId + 1],
               originatingTab |-> lastToolCallOriginTab])
  /\ nextRequestId' = nextRequestId + 1
  /\ activeTab' = "elicitations"
  /\ UNCHANGED <<pendingSampleRequests, lastToolCallOriginTab,
                 serverCapabilities, navTimers, resolveCalls, rejectCalls>>
  /\ UNCHANGED <<taskVars, corrVars, metaVars, authVars, readVars, rendererVars, appsVars, cliVars>>

\* mutant: no originating tab is taken for valid
NavigatesNever(originatingTab) == FALSE

\* navigateToOriginatingTab would start a timer
Navigates(originatingTab) == originatingTab \in ValidTabs(serverCapabilities)

\* navigateToOriginatingTab, and the same code inlined in
\* handleResolveElicitation
NavigateToOriginatingTab(originatingTab) ==
  IF Navigates(originatingTab)
  THEN /\ activeTab' = originatingTab
       /\ navTimers' = Append(navTimers, originatingTab)
  ELSE UNCHANGED <<activeTab, navTimers>>

\* the setTimeout callback of navigateToOriginatingTab
NavTimerFires ==
  /\ navTimers # <<>>
  /\ activeTab' = Head(navTimers)
  /\ navTimers' = Tail(navTimers)
  /\ UNCHANGED <<pendingSampleRequests, pendingElicitationRequests,
                 nextRequestId, lastToolCallOriginTab, serverCapabilities,
                 resolveCalls, rejectCalls>>
  /\ UNCHANGED <<taskVars, corrVars, metaVars, authVars, readVars, rendererVars, appsVars, cliVars>>

TimerRoom(list, id) ==
  (HasEntry(list, id) /\ Navigates(FindEntry(list, id).originatingTab))
    => Len(navTimers) < MaxTimers

\* handleApproveSampling
HandleApproveSampling(id) ==
  /\ TimerRoom(pendingSampleRequests, id)
  /\ IF HasEntry(pendingSampleRequests, id)
     THEN /\ resolveCalls' = Called(resolveCalls, id)
          /\ NavigateToOriginatingTab(
               FindEntry(pendingSampleRequests, id).originatingTab)
     ELSE UNCHANGED <<resolveCalls, activeTab, navTimers>>
  /\ pendingSampleRequests' = RemoveById(pendingSampleRequests, id)
  /\ UNCHANGED <<pendingElicitationRequests, nextRequestId,
                 lastToolCallOriginTab, serverCapabilities, rejectCalls>>
  /\ UNCHANGED <<taskVars, corrVars, metaVars, authVars, readVars, rendererVars, appsVars, cliVars>>

\* handleRejectSampling
HandleRejectSampling(id) ==
  /\ TimerRoom(pendingSampleRequests, id)
  /\ IF HasEntry(pendingSampleRequests, id)
     THEN /\ rejectCalls' = Called(rejectCalls, id)
          /\ NavigateToOriginatingTab(
               FindEntry(pendingSampleRequests, id).originatingTab)
     ELSE UNCHANGED <<rejectCalls, activeTab, navTimers>>
  /\ pendingSampleRequests' = RemoveById(pendingSampleRequests, id)
  /\ UNCHANGED <<pendingElicitationRequests, nextRequestId,
                 lastToolCallOriginTab, serverCapabilities, resolveCalls>>
  /\ UNCHANGED <<taskVars, corrVars, metaVars, authVars, readVars, rendererVars, appsVars, cliVars>>

\* handleResolveElicitation
HandleResolveElicitation(id) ==
  /\ TimerRoom(pendingElicitationRequests, id)
  /\ IF HasEntry(pendingElicitationRequests, id)
     THEN /\ resolveCalls' = Called(resolveCalls, id)
          /\ NavigateToOriginatingTab(
               FindEntry(pendingElicitationRequests, id).originatingTab)
     ELSE UNCHANGED <<resolveCalls, activeTab, navTimers>>
  /\ pendingElicitationRequests' = RemoveById(pendingElicitationRequests, id)
  /\ UNCHANGED <<pendingSampleRequests, nextRequestId,
                 lastToolCallOriginTab, serverCapabilities, rejectCalls>>
  /\ UNCHANGED <<taskVars, corrVars, metaVars, authVars, readVars, rendererVars, appsVars, cliVars>>

\* ------------------------------ Session / Request Correlator (section 4.2)
SessionIds == 1..MaxIds

\* the payload the server puts in the response to request id
PayloadOf(id) == id + 100

Messages == [id : SessionIds, isError : BOOLEAN,
             payload : {0} \cup {PayloadOf(id) : id \in SessionIds}]

NotSettled == <<>>
Resolved(payload) == [how |-> "resolved", with |-> payload]
Rejected(error)   == [how |-> "rejected", with |-> error]

InitCorr ==
  /\ requestIdCounter = 0
  /\ pendingTable = {}
  /\ atServer = {}
  /\ inbound = {}
  /\ settlements = [id \in SessionIds |-> NotSettled]
  /\ sessionStatus = "connected"

Settle(S, outcome) ==
  [id \in SessionIds |->
     IF id \in S /\ Len(settlements[id]) < MaxCallbackCalls
     THEN Append(settlements[id], outcome) ELSE settlements[id]]

\* request(): the next id is allocated, the PendingRequest is registered,
\* then the message is sent
Request ==
  /\ sessionStatus = "connected"
  /\ requestIdCounter < MaxIds
  /\ requestIdCounter' = requestIdCounter + 1
  /\ pendingTable' = pendingTable \cup {requestIdCounter + 1}
  /\ atServer' = atServer \cup {requestIdCounter + 1}
  /\ UNCHANGED <<inbound, settlements, sessionStatus>>
  /\ UNCHANGED <<taskVars, hostVars, metaVars, authVars, readVars, rendererVars, appsVars, cliVars>>

\* the server answers any of the requests it holds, in any order
ServerRespond(id, isError) ==
  /\ id \in atServer
  /\ atServer' = atServer \ {id}
  /\ inbound' = inbound \cup
       {[id |-> id, isError |-> isError,
         payload |-> IF isError THEN 0 ELSE PayloadOf(id)]}
  /\ UNCHANGED <<requestIdCounter, pendingTable, settlements, sessionStatus>>
  /\ UNCHANGED <<taskVars, hostVars, metaVars, authVars, readVars, rendererVars, appsVars, cliVars>>

\* mutant: the responses are matched in arrival order, to the oldest entry
OnResponseFifo(m) ==
  /\ m \in inbound
  /\ inbound' = inbound \ {m}
  /\ IF pendingTable # {}
     THEN LET oldest == CHOOSE id \in pendingTable :
                          \A o \in pendingTable : id <= o
          IN /\ pendingTable' = pendingTable \ {oldest}
             /\ settlements' =
                  Settle({oldest}, IF m.isError THEN Rejected("ProtocolError")
                                   ELSE Resolved(m.payload))
     ELSE UNCHANGED <<pendingTable, settlements>>
  /\ UNCHANGED <<requestIdCounter, atServer, sessionStatus>>
  /\ UNCHANGED <<taskVars, hostVars, metaVars, authVars, readVars, rendererVars, appsVars, cliVars>>

\* an inbound response is matched by its id; one whose id is no longer in the
\* pending table is dropped
OnResponse(m) ==
  /\ m \in inbound
  /\ inbound' = inbound \ {m}
  /\ IF m.id \in pendingTable
     THEN /\ pendingTable' = pendingTable \ {m.id}
          /\ settlements' =
               Settle({m.id}, IF m.isError THEN Rejected("ProtocolError")
                              ELSE Resolved(m.payload))
     ELSE UNCHANGED <<pendingTable, settlements>>
  /\ UNCHANGED <<requestIdCounter, atServer, sessionStatus>>
  /\ UNCHANGED <<taskVars, hostVars, metaVars, authVars, readVars, rendererVars, appsVars, cliVars>>

\* mutant: cancellation rejects the caller and leaves the entry in the table
CancelRequestKeepsEntry(id) ==
  /\ id \in pendingTable
  /\ Len(settlements[id]) < MaxCallbackCalls
  /\ settlements' = Settle({id}, Rejected("CancelledError"))
  /\ UNCHANGED <<requestIdCounter, pendingTable, atServer, inbound,
                 sessionStatus>>
  /\ UNCHANGED <<taskVars, hostVars, metaVars, authVars, readVars, rendererVars, appsVars, cliVars>>

\* options.signal fires before the response: the entry is removed and the
\* caller rejected; the server may still answer
CancelRequest(id) ==
  /\ id \in pendingTable
  /\ pendingTable' = pendingTable \ {id}
  /\ settlements' = Settle({id}, Rejected("CancelledError"))
  /\ UNCHANGED <<requestIdCounter, atServer, inbound, sessionStatus>>
  /\ UNCHANGED <<taskVars, hostVars, metaVars, authVars, readVars, rendererVars, appsVars, cliVars>>

\* mutant: close marks the Session and forgets the pending requests
TransportCloseForgets ==
  /\ sessionStatus = "connected"
  /\ pendingTable' = {}
  /\ atServer' = {}
  /\ sessionStatus' = "error"
  /\ UNCHANGED <<requestIdCounter, inbound, settlements>>
  /\ UNCHANGED <<taskVars, hostVars, metaVars, authVars, readVars, rendererVars, appsVars, cliVars>>

\* the transport closes or errors: every pending request is rejected; the
\* responses still in flight may arrive afterwards
TransportClose ==
  /\ sessionStatus = "connected"
  /\ settlements' = Settle(pendingTable, Rejected("ConnectionLostError"))
  /\ pendingTable' = {}
  /\ atServer' = {}
  /\ sessionStatus' = "error"
  /\ UNCHANGED <<requestIdCounter, inbound>>
  /\ UNCHANGED <<taskVars, hostVars, metaVars, authVars, readVars, rendererVars, appsVars, cliVars>>

\* ------------------------------------------------------ OAuth debug flow
\* the steps of the flow state, in the order executeStep moves through them
OAuthSteps == <<"idle", "authorization_redirect", "authorization_code",
                "token_request", "complete">>

EMPTY_DEBUGGER_STATE ==
  [oauthStep |-> "idle", authorizationCode |-> "", oauthTokens |-> "null",
   latestError |-> "null", statusMessage |-> "null", isInitiatingAuth |-> FALSE]

\* what a failing step throws
StepErrors == {"invalid_grant", "network"}
Outcomes == {"ok"} \cup StepErrors

\* executeStep: the step can be carried out from this state
CanExecute(state) ==
  /\ state.oauthStep # "complete"
  /\ state.oauthStep = "authorization_code" => state.authorizationCode # ""

\* executeStep: the state after the updates of a step that succeeds
StepUpdates(state) ==
  CASE state.oauthStep = "idle" ->
         [state EXCEPT !.oauthStep = "authorization_redirect"]
    [] state.oauthStep = "authorization_redirect" ->
         [state EXCEPT !.oauthStep = "authorization_code"]
    [] state.oauthStep = "authorization_code" ->
         [state EXCEPT !.oauthStep = "token_request"]
    [] state.oauthStep = "token_request" ->
         [state EXCEPT !.oauthTokens = "tokens", !.oauthStep = "complete"]
    [] OTHER -> state

\* executeStep: what a successful step does outside the flow state
RedirectsAfter(state) ==
  IF state.oauthStep = "authorization_redirect"
  THEN Min(redirects + 1, MaxRedirects) ELSE redirects
TokensAfter(state) == sessionTokens \/ state.oauthStep = "token_request"

IdleResume == [pc |-> "idle", currentState |-> EMPTY_DEBUGGER_STATE]

InitAuth(tokens) ==
  /\ authState = EMPTY_DEBUGGER_STATE
  /\ isAuthDebuggerVisible = FALSE
  /\ resume = IdleResume
  /\ sessionTokens = tokens
  /\ redirects = 0

\* the restoredState argument: absent, or a state persisted before the redirect
NoRestoredState == [present |-> FALSE, state |-> EMPTY_DEBUGGER_STATE]
RestoredInputs ==
  {NoRestoredState,
   [present |-> TRUE,
    state |-> [EMPTY_DEBUGGER_STATE EXCEPT !.oauthStep = "authorization_code"]],
   [present |-> TRUE,
    state |-> [EMPTY_DEBUGGER_STATE EXCEPT !.oauthStep = "authorization_redirect",
                                           !.latestError = "network"]]}

\* mutant: the resumed flow starts over at the redirect step
ResumeStepRedirect == "authorization_redirect"

\* the step the resumed flow is given
ResumeStep == "token_request"

\* the loop condition of the resume loop
LoopContinues(state) ==
  state.oauthStep # "complete" /\ state.oauthStep # "authorization_code"

\* onOAuthDebugConnect up to its first await
OnOAuthDebugConnect(authorizationCode, errorMsg, restored) ==
  /\ resume.pc = "idle"
  /\ isAuthDebuggerVisible' = TRUE
  /\ IF errorMsg # ""
     THEN /\ authState' = [authState EXCEPT !.latestError = errorMsg]
          /\ UNCHANGED resume
     ELSE IF restored.present /\ authorizationCode # ""
     THEN LET currentState ==
                [restored.state EXCEPT !.authorizationCode = authorizationCode,
                                       !.oauthStep = ResumeStep,
                                       !.isInitiatingAuth = TRUE,
                                       !.statusMessage = "null",
                                       !.latestError = "null"]
          IN /\ resume' = [pc |-> "executing", currentState |-> currentState]
             /\ UNCHANGED authState
     ELSE IF authorizationCode # ""
     THEN /\ authState' = [authState EXCEPT
                              !.authorizationCode = authorizationCode,
                              !.oauthStep = "token_request"]
          /\ UNCHANGED resume
     ELSE UNCHANGED <<authState, resume>>
  /\ UNCHANGED <<sessionTokens, redirects>>
  /\ UNCHANGED <<taskVars, hostVars, corrVars, metaVars, readVars, rendererVars, appsVars, cliVars>>

\* mutant: the resumed flow's result is shown with the flow back at its start
CompletedUpdatesRestart(currentState) ==
  [currentState EXCEPT !.statusMessage = "success", !.isInitiatingAuth = FALSE,
                       !.oauthStep = "idle"]

\* the updateAuthState call once the loop has reached complete
CompletedUpdates(currentState) ==
  [currentState EXCEPT !.statusMessage = "success", !.isInitiatingAuth = FALSE]

\* mutant: the catch records the error and the same step is executed again
ResumeCatchRetry(error) ==
  /\ authState' = [authState EXCEPT !.latestError = error,
                                    !.statusMessage = "error",
                                    !.isInitiatingAuth = FALSE]
  /\ UNCHANGED <<resume, sessionTokens, redirects>>

\* the catch around the resume loop
ResumeCatch(error) ==
  /\ authState' = [authState EXCEPT !.latestError = error,
                                    !.statusMessage = "error",
                                    !.isInitiatingAuth = FALSE]
  /\ resume' = IdleResume
  /\ UNCHANGED <<sessionTokens, redirects>>

\* an awaited executeStep of the resume loop returns or throws; the loop goes
\* on, or ends and the result is written to the flow state
ExecuteStepReturns(outcome) ==
  /\ resume.pc = "executing"
  /\ outcome = "ok" => CanExecute(resume.currentState)
  /\ IF outcome = "ok"
     THEN LET currentState == StepUpdates(resume.currentState) IN
            /\ redirects' = RedirectsAfter(resume.currentState)
            /\ sessionTokens' = TokensAfter(resume.currentState)
            /\ IF LoopContinues(currentState)
               THEN /\ resume' = [resume EXCEPT !.currentState = currentState]
                    /\ UNCHANGED authState
               ELSE /\ resume' = IdleResume
                    /\ authState' = IF currentState.oauthStep = "complete"
                                     THEN CompletedUpdates(currentState)
                                     ELSE authState
     ELSE ResumeCatch(outcome)
  /\ UNCHANGED isAuthDebuggerVisible
  /\ UNCHANGED <<taskVars, hostVars, corrVars, metaVars, readVars, rendererVars, appsVars, cliVars>>

\* the loadOAuthTokens effect, run when the server URL changes
LoadOAuthTokens ==
  /\ sessionTokens
  /\ authState' = [authState EXCEPT !.oauthTokens = "tokens",
                                    !.oauthStep = "complete"]
  /\ authState' # authState
  /\ UNCHANGED <<isAuthDebuggerVisible, resume, sessionTokens, redirects>>
  /\ UNCHANGED <<taskVars, hostVars, corrVars, metaVars, readVars, rendererVars, appsVars, cliVars>>

\* the auth debugger runs one step of the flow on the flow state itself; a
\* step that fails leaves the error in the state, and no step runs from then on
DebuggerExecuteStep(outcome) ==
  /\ resume.pc = "idle"
  /\ authState.latestError = "null"
  /\ authState.oauthStep # "complete"
  /\ outcome = "ok" => CanExecute(authState)
  /\ IF outcome = "ok"
     THEN /\ authState' = StepUpdates(authState)
          /\ redirects' = RedirectsAfter(authState)
          /\ sessionTokens' = TokensAfter(authState)
     ELSE /\ authState' = [authState EXCEPT !.latestError = outcome]
          /\ UNCHANGED <<redirects, sessionTokens>>
  /\ UNCHANGED <<isAuthDebuggerVisible, resume>>
  /\ UNCHANGED <<taskVars, hostVars, corrVars, metaVars, readVars, rendererVars, appsVars, cliVars>>

\* the auth debugger starts the flow afresh
DebuggerReset ==
  /\ resume.pc = "idle"
  /\ authState # EMPTY_DEBUGGER_STATE
  /\ authState' = EMPTY_DEBUGGER_STATE
  /\ UNCHANGED <<isAuthDebuggerVisible, resume, sessionTokens, redirects>>
  /\ UNCHANGED <<taskVars, hostVars, corrVars, metaVars, readVars, rendererVars, appsVars, cliVars>>

\* ------------------------------------------------------- resource reads
\* the tabs whose readResource / onReadResource prop calls readResource
ReadingTabs == {"resources", "tools"}

InitReads == reads = [tab \in ReadingTabs |-> "none"]

\* clearError: setErrors((prev) => ({ ...prev, [tabKey]: null }))
ClearError(errs, tabKey) == [errs EXCEPT ![tabKey] = "null"]

\* the catch of sendMCPRequest: the message is stored under tabKey, then the
\* error is thrown again
SendMCPRequestCatch(errs, tabKey) == [errs EXCEPT ![tabKey] = "err"]

\* the tabKey that readResource passes to sendMCPRequest
ReadResourceTabKey == "resources"

\* the readResource prop of ResourcesTab and the onReadResource prop of
\* ToolsTab, both clearError("resources") and readResource(uri) up to its
\* await: the originating tab is noted, resources/read is sent
OnReadResource(from) ==
  /\ serverCapabilities.connected
  /\ activeTab = from
  /\ reads[from] = "none"
  /\ errors' = ClearError(errors, "resources")
  /\ lastToolCallOriginTab' = activeTab
  /\ reads' = [reads EXCEPT ![from] = "sent"]
  /\ UNCHANGED <<tasks, selectedTask, toolResult, isPollingTask, calls,
                 lists, cancels, isCancelling, cancelOk, srv, pushes>>
  /\ UNCHANGED <<pendingSampleRequests, pendingElicitationRequests,
                 nextRequestId, activeTab, serverCapabilities, navTimers,
                 resolveCalls, rejectCalls>>
  /\ UNCHANGED <<corrVars, metaVars, authVars, rendererVars, appsVars, cliVars>>

\* readResource after the resources/read response: sendMCPRequest clears the
\* entry of its tabKey on success; on failure it stores the message there and
\* the error leaves readResource, which has no catch
ReadResourceResponse(from, ok) ==
  /\ reads[from] = "sent"
  /\ errors' = IF ok THEN ClearError(errors, ReadResourceTabKey)
                ELSE SendMCPRequestCatch(errors, ReadResourceTabKey)
  /\ reads' = [reads EXCEPT ![from] = "none"]
  /\ UNCHANGED <<tasks, selectedTask, toolResult, isPollingTask, calls,
                 lists, cancels, isCancelling, cancelOk, srv, pushes>>
  /\ UNCHANGED <<hostVars, corrVars, metaVars, authVars, rendererVars, appsVars, cliVars>>

\* ----------------------------------------------------------- AppRenderer
AppTools == {"budgetApp", "allocatorApp"}
AppInputs == {"january", "february"}
RunIds == 1..MaxRuns

\* a runTool invocation: the request it sent, its AbortController, its position
NoRun == [tool |-> "", toolInput |-> "", pc |-> "none", aborted |-> FALSE,
          ignored |-> FALSE]

\* useState<CallToolResult | undefined>(): undefined
Undefined == [kind |-> "undefined", isError |-> FALSE, tool |-> "",
              toolInput |-> ""]

\* what the server answered to tools/call { name, arguments }, or the result
\* synthesized by the catch of runTool
RunResult(run, ok) ==
  [kind |-> IF ok THEN "result" ELSE "error", isError |-> ~ok,
   tool |-> run.tool, toolInput |-> run.toolInput]

InitRenderer ==
  /\ mcpClient = FALSE
  /\ toolName = "budgetApp"
  /\ toolInput = "january"
  /\ latestRunId = 0
  /\ runs = [r \in RunIds |-> NoRun]
  /\ appToolResult = Undefined

\* the cleanup of the previous effect: abortController.abort()
Cleanup(rs) ==
  [r \in RunIds |-> IF rs[r].pc = "none" THEN rs[r]
                    ELSE [rs[r] EXCEPT !.aborted = TRUE]]

\* the useEffect on [mcpClient, tool.name, toolInput]: the previous effect is
\* cleaned up; without a client the result is cleared; with one a new run
\* takes the next run id, the result is cleared and tools/call is sent
RendererEffect(client, name, input) ==
  /\ client \/ mcpClient \/ <<name, input>> # <<toolName, toolInput>>
  /\ client => latestRunId < MaxRuns
  /\ mcpClient' = client
  /\ toolName' = name
  /\ toolInput' = input
  /\ appToolResult' = Undefined
  /\ IF client
     THEN /\ latestRunId' = latestRunId + 1
          /\ runs' = [Cleanup(runs) EXCEPT ![latestRunId + 1] =
                        [tool |-> name, toolInput |-> input, pc |-> "sent",
                         aborted |-> FALSE, ignored |-> FALSE]]
     ELSE /\ runs' = Cleanup(runs)
          /\ UNCHANGED latestRunId
  /\ UNCHANGED <<taskVars, hostVars, corrVars, metaVars, authVars, readVars, appsVars, cliVars>>

\* mutant: runTool sets whatever outcome arrives
IsStaleNever(r) == FALSE

\* abortController.signal.aborted || runId !== latestRunIdRef.current
IsStale(r) == runs[r].aborted \/ r # latestRunId

\* runTool after its await: the request of run r resolved (ok) or rejected
RunToolSettles(r, ok) ==
  /\ runs[r].pc = "sent"
  /\ IF IsStale(r)
     THEN /\ runs' = [runs EXCEPT ![r].pc = "done", ![r].ignored = TRUE]
          /\ UNCHANGED appToolResult
     ELSE /\ runs' = [runs EXCEPT ![r].pc = "done"]
          /\ appToolResult' = RunResult(runs[r], ok)
  /\ UNCHANGED <<mcpClient, toolName, toolInput, latestRunId>>
  /\ UNCHANGED <<taskVars, hostVars, corrVars, metaVars, authVars, readVars, appsVars, cliVars>>

\* --------------------------------------------------------------- AppsTab
\* the tools of the server that have UI metadata: one with input fields, one
\* without
UiTools == {"formApp", "directApp"}
NullTool == "null"
HasFields(t) == t = "formApp"
OpenRunIds == 1..MaxOpenRuns

\* values of params, submittedParams and prefillingParamsRef.current
EmptyParams == <<>>
NoParams == <<"null">>
NoSubmittedParams == <<"undefined">>
EditedParams(t) == <<t, "edited">>
PrefilledParams(call) == <<call.toolName, "prefilled">>

\* buildInitialParams
BuildInitialParams(t) == <<t, "initial">>

\* values of submittedToolResult
NoAppResult == [kind |-> "null", id |-> 0]
LaunchResult(r) == [kind |-> "result", id |-> r]
PrefilledResult(call) == [kind |-> "prefilled", id |-> call.id]

\* the prefilledToolCall prop
NoPrefilledCall == [id |-> 0, toolName |-> NullTool]
PrefilledInputs ==
  {NoPrefilledCall}
    \cup [id : 1..MaxPrefilled, toolName : UiTools \cup {"plainTool"}]

NoLaunch == [pc |-> "none", tool |-> NullTool, runParams |-> NoParams,
             ignored |-> FALSE]

InitApps ==
  /\ appsTab = [appTools |-> {},
                selectedTool |-> NullTool,
                params |-> EmptyParams,
                isAppOpen |-> FALSE,
                isOpeningApp |-> FALSE,
                submittedParams |-> NoSubmittedParams,
                submittedToolResult |-> NoAppResult,
                openAppRunId |-> 0,
                prefillingParams |-> NoParams,
                consumedPrefilledCallId |-> 0]
  /\ launches = [r \in OpenRunIds |-> NoLaunch]
  /\ prefilledToolCall = NoPrefilledCall

\* the useEffect on [tools, selectedTool]: the app tools are filtered and a
\* selected tool that is no longer available is reset
FilterEffect(st, available) ==
  IF st.selectedTool # NullTool /\ st.selectedTool \notin available
  THEN [st EXCEPT !.appTools = available,
                  !.selectedTool = NullTool,
                  !.isAppOpen = FALSE,
                  !.submittedParams = NoSubmittedParams,
                  !.submittedToolResult = NoAppResult]
  ELSE [st EXCEPT !.appTools = available]

\* the useEffect on [buildInitialParams, selectedTool]
SelectedToolEffect(st) ==
  IF st.selectedTool # NullTool
  THEN IF st.prefillingParams # NoParams
       THEN [st EXCEPT !.params = st.prefillingParams,
                       !.prefillingParams = NoParams]
       ELSE [st EXCEPT !.params = BuildInitialParams(st.selectedTool)]
  ELSE [st EXCEPT !.params = EmptyParams,
                  !.isAppOpen = FALSE,
                  !.submittedParams = NoSubmittedParams,
                  !.submittedToolResult = NoAppResult]

\* the effect on selectedTool runs when the selection has changed
AfterSelection(old, new) ==
  IF new.selectedTool # old.selectedTool THEN SelectedToolEffect(new) ELSE new

\* the useEffect on [appTools, onPrefilledToolCallConsumed, prefilledToolCall]
PrefilledEffect(st, call) ==
  IF \/ call = NoPrefilledCall
     \/ st.consumedPrefilledCallId = call.id
     \/ call.toolName \notin st.appTools
  THEN st
  ELSE [st EXCEPT !.openAppRunId = @ + 1,
                  !.isOpeningApp = FALSE,
                  !.prefillingParams = PrefilledParams(call),
                  !.selectedTool = call.toolName,
                  !.submittedParams = PrefilledParams(call),
                  !.submittedToolResult = PrefilledResult(call),
                  !.isAppOpen = TRUE,
                  !.consumedPrefilledCallId = call.id]

\* executeToolAndOpenApp up to its await
ExecuteToolAndOpenApp(st, toolParams) ==
  [st EXCEPT !.openAppRunId = @ + 1,
             !.prefillingParams = NoParams,
             !.isOpeningApp = TRUE,
             !.submittedParams = toolParams,
             !.submittedToolResult = NoAppResult]

\* the callTool request sent by executeToolAndOpenApp under run id r
Launched(ls, r, t, toolParams) ==
  [ls EXCEPT ![r] = [pc |-> "sent", tool |-> t, runParams |-> toolParams,
                     ignored |-> FALSE]]

\* the tools prop changes: the filter effect, then the effects on the
\* selection and on the prefilled call
ToolsChange(available) ==
  LET s1 == FilterEffect(appsTab, available)
      s2 == AfterSelection(appsTab, s1)
      s3 == PrefilledEffect(s2, prefilledToolCall)
  IN /\ available # appsTab.appTools
     /\ s3.openAppRunId <= MaxOpenRuns
     /\ appsTab' = AfterSelection(s2, s3)
     /\ UNCHANGED <<launches, prefilledToolCall>>
     /\ UNCHANGED <<taskVars, hostVars, corrVars, metaVars, authVars, readVars,
                    rendererVars, cliVars>>

\* the prefilledToolCall prop changes and its effect runs
PrefilledToolCallChanges(call) ==
  LET s1 == PrefilledEffect(appsTab, call)
  IN /\ call # prefilledToolCall
     /\ s1.openAppRunId <= MaxOpenRuns
     /\ prefilledToolCall' = call
     /\ appsTab' = AfterSelection(appsTab, s1)
     /\ UNCHANGED launches
     /\ UNCHANGED <<taskVars, hostVars, corrVars, metaVars, authVars, readVars,
                    rendererVars, cliVars>>

\* an input of the form of the selected tool is edited
SetParams ==
  /\ appsTab.selectedTool # NullTool
  /\ ~appsTab.isAppOpen
  /\ appsTab.params # EditedParams(appsTab.selectedTool)
  /\ appsTab' = [appsTab EXCEPT !.params = EditedParams(appsTab.selectedTool)]
  /\ UNCHANGED <<launches, prefilledToolCall>>
  /\ UNCHANGED <<taskVars, hostVars, corrVars, metaVars, authVars, readVars,
                 rendererVars, cliVars>>

\* handleSelectTool: a tool without input fields is launched at once
HandleSelectTool(t) ==
  LET s1 == [appsTab EXCEPT !.openAppRunId = @ + 1,
                            !.isOpeningApp = FALSE,
                            !.prefillingParams = NoParams,
                            !.selectedTool = t,
                            !.submittedParams = NoSubmittedParams,
                            !.submittedToolResult = NoAppResult]
      s2 == IF HasFields(t) THEN [s1 EXCEPT !.isAppOpen = FALSE]
            ELSE ExecuteToolAndOpenApp(s1, BuildInitialParams(t))
  IN /\ t \in appsTab.appTools
     /\ s2.openAppRunId <= MaxOpenRuns
     /\ appsTab' = AfterSelection(appsTab, s2)
     /\ launches' = IF HasFields(t) THEN launches
                    ELSE Launched(launches, s2.openAppRunId, t,
                                  BuildInitialParams(t))
     /\ UNCHANGED prefilledToolCall
     /\ UNCHANGED <<taskVars, hostVars, corrVars, metaVars, authVars, readVars,
                    rendererVars, cliVars>>

\* handleDeselectTool, the Close app button shown while a tool is selected
HandleDeselectTool ==
  LET s1 == [appsTab EXCEPT !.openAppRunId = @ + 1,
                            !.isOpeningApp = FALSE,
                            !.prefillingParams = NoParams,
                            !.selectedTool = NullTool,
                            !.isAppOpen = FALSE,
                            !.submittedParams = NoSubmittedParams,
                            !.submittedToolResult = NoAppResult]
  IN /\ appsTab.selectedTool # NullTool
     /\ appsTab.openAppRunId < MaxOpenRuns
     /\ appsTab' = AfterSelection(appsTab, s1)
     /\ UNCHANGED <<launches, prefilledToolCall>>
     /\ UNCHANGED <<taskVars, hostVars, corrVars, metaVars, authVars, readVars,
                    rendererVars, cliVars>>

\* handleCloseApp, the Back to Input button of an open app with input fields
HandleCloseApp ==
  /\ appsTab.selectedTool # NullTool
  /\ appsTab.isAppOpen
  /\ HasFields(appsTab.selectedTool)
  /\ appsTab.openAppRunId < MaxOpenRuns
  /\ appsTab' = [appsTab EXCEPT !.openAppRunId = @ + 1,
                                !.isOpeningApp = FALSE,
                                !.isAppOpen = FALSE,
                                !.submittedToolResult = NoAppResult]
  /\ UNCHANGED <<launches, prefilledToolCall>>
  /\ UNCHANGED <<taskVars, hostVars, corrVars, metaVars, authVars, readVars,
                 rendererVars, cliVars>>

\* handleOpenApp, the Open App button: shown while the app is not open,
\* disabled while isOpeningApp; the form is valid
HandleOpenApp ==
  LET s1 == ExecuteToolAndOpenApp(appsTab, appsTab.params)
  IN /\ appsTab.selectedTool # NullTool
     /\ ~appsTab.isAppOpen
     /\ ~appsTab.isOpeningApp
     /\ appsTab.openAppRunId < MaxOpenRuns
     /\ appsTab' = s1
     /\ launches' = Launched(launches, s1.openAppRunId, appsTab.selectedTool,
                             appsTab.params)
     /\ UNCHANGED prefilledToolCall
     /\ UNCHANGED <<taskVars, hostVars, corrVars, metaVars, authVars, readVars,
                    rendererVars, cliVars>>

\* mutant: the outcome of every launch is applied
IsSupersededNever(r) == FALSE

\* runId !== openAppRunIdRef.current, in the try and the catch
IsSuperseded(r) == r # appsTab.openAppRunId

\* mutant: the finally block clears isOpeningApp for every launch
ClearsOpeningAlways(r) == TRUE

\* runId === openAppRunIdRef.current, in the finally block
ClearsOpening(r) == r = appsTab.openAppRunId

\* executeToolAndOpenApp after its await: callTool resolved (ok) or rejected
LaunchSettles(r, ok) ==
  LET s1 == IF IsSuperseded(r) THEN appsTab
            ELSE IF ok
            THEN [appsTab EXCEPT !.submittedParams = launches[r].runParams,
                                 !.submittedToolResult = LaunchResult(r),
                                 !.isAppOpen = TRUE]
            ELSE [appsTab EXCEPT !.submittedToolResult = NoAppResult,
                                 !.isAppOpen = FALSE]
  IN /\ launches[r].pc = "sent"
     /\ launches' = [launches EXCEPT ![r].pc = "done",
                                     ![r].ignored = IsSuperseded(r)]
     /\ appsTab' = IF ClearsOpening(r) THEN [s1 EXCEPT !.isOpeningApp = FALSE]
                   ELSE s1
     /\ UNCHANGED prefilledToolCall
     /\ UNCHANGED <<taskVars, hostVars, corrVars, metaVars, authVars, readVars,
                    rendererVars, cliVars>>

\* ------------------------------------------------------------------- CLI
\* a --header entry is a string over a letter, the colon and the space
HeaderChars == {"a", ":", " "}
HeaderInputs == UNION {[1..n -> HeaderChars] : n \in 0..MaxHeaderLen}

\* String.prototype.trim on such a string
RECURSIVE TrimStart(_)
TrimStart(str) ==
  IF str # <<>> /\ Head(str) = " " THEN TrimStart(Tail(str)) ELSE str

RECURSIVE TrimEnd(_)
TrimEnd(str) ==
  IF str # <<>> /\ str[Len(str)] = " "
  THEN TrimEnd(SubSeq(str, 1, Len(str) - 1)) ELSE str

TrimString(str) == TrimEnd(TrimStart(str))

\* the index of the first colon, 0 if there is none
FirstColon(str) ==
  IF \E i \in DOMAIN str : str[i] = ":"
  THEN CHOOSE i \in DOMAIN str :
         str[i] = ":" /\ \A j \in 1..(i - 1) : str[j] # ":"
  ELSE 0

\* mutant: the index of the last colon
LastColon(str) ==
  IF \E i \in DOMAIN str : str[i] = ":"
  THEN CHOOSE i \in DOMAIN str :
         str[i] = ":" /\ \A j \in (i + 1)..Len(str) : str[j] # ":"
  ELSE 0

\* the colon at which a --header entry is split
SplitIndex(str) == FirstColon(str)

InvalidHeader == [ok |-> FALSE, name |-> <<>>, value |-> <<>>]

\* the parser of a --header entry
ParseHeaderPair(str) ==
  LET i == SplitIndex(str)
      name == TrimString(SubSeq(str, 1, i - 1))
      value == TrimString(SubSeq(str, i + 1, Len(str)))
  IN IF i = 0 \/ name = <<>> \/ value = <<>> THEN InvalidHeader
     ELSE [ok |-> TRUE, name |-> name, value |-> value]

\* the servers a config file can name
ServerNames == {"default-server", "server1", "server2"}
NoConfig == [present |-> FALSE, mcpServers |-> {}]
ConfigInputs ==
  {NoConfig} \cup [present : {TRUE}, mcpServers : SUBSET ServerNames]
ServerInputs == {""} \cup ServerNames
NotSelected == [ok |-> FALSE, name |-> ""]

\* mutant: among several servers the one named default-server is selected
AutoSelectPrefersDefault(mcpServers) ==
  IF Cardinality(mcpServers) = 1
  THEN [ok |-> TRUE, name |-> CHOOSE n \in mcpServers : TRUE]
  ELSE IF "default-server" \in mcpServers
  THEN [ok |-> TRUE, name |-> "default-server"]
  ELSE NotSelected

\* --config without --server: a config with exactly one server selects it
AutoSelect(mcpServers) ==
  IF Cardinality(mcpServers) = 1
  THEN [ok |-> TRUE, name |-> CHOOSE n \in mcpServers : TRUE]
  ELSE NotSelected

\* the server taken from --config and --server; without either the target
\* is the positional command or URL
SelectServer(config, server) ==
  IF ~config.present
  THEN IF server = "" THEN [ok |-> TRUE, name |-> ""] ELSE NotSelected
  ELSE IF server = "" THEN AutoSelect(config.mcpServers)
  ELSE IF server \in config.mcpServers THEN [ok |-> TRUE, name |-> server]
  ELSE NotSelected

\* the arguments of an invocation; header <<"-">> stands for no --header
NoHeader == <<"-">>
Methods == {"tools/list", "tools/call"}
BaseArgs ==
  [target |-> "url", transport |-> "http", method |-> "tools/list",
   toolName |-> "", header |-> NoHeader, config |-> NoConfig, server |-> ""]

\* the first validation the arguments fail, "none" if they pass all
ValidationFailure(args) ==
  IF args.header # NoHeader /\ ~ParseHeaderPair(args.header).ok
  THEN "Invalid header format"
  ELSE IF ~SelectServer(args.config, args.server).ok
  THEN "server selection"
  ELSE IF ~args.config.present /\ args.target = "none"
  THEN "target required"
  ELSE IF args.transport \in {"sse", "http"} /\ ~args.config.present
          /\ args.target # "url"
  THEN "URL required"
  ELSE IF args.method = "" THEN "method required"
  ELSE IF args.method \notin Methods THEN "unsupported method"
  ELSE IF args.method = "tools/call" /\ args.toolName = ""
  THEN "tool name required"
  ELSE "none"

IdleCli ==
  [pc |-> "idle", args |-> BaseArgs, headers |-> InvalidHeader,
   server |-> NotSelected, failure |-> "none", exitCode |-> 0,
   stdout |-> "", stderr |-> ""]

InitCli == cli = IdleCli

\* mutant: the process always exits with code 0
ExitCodeZero(failure) == 0

\* the exit code of the process
ExitCode(failure) == IF failure = "none" THEN 0 ELSE 1

\* the process ends: the JSON result on standard-out, or the diagnostic text
\* on standard-error
Exited(st, failure) ==
  [st EXCEPT !.pc = "exited",
             !.failure = failure,
             !.exitCode = ExitCode(failure),
             !.stdout = IF failure = "none" THEN "json" ELSE "",
             !.stderr = IF failure = "none" THEN "" ELSE failure]

\* the CLI is started: the arguments are parsed and validated
RunCli(args) ==
  LET st == [cli EXCEPT !.args = args,
                        !.headers = IF args.header = NoHeader
                                    THEN InvalidHeader
                                    ELSE ParseHeaderPair(args.header),
                        !.server = SelectServer(args.config, args.server)]
  IN /\ cli.pc = "idle"
     /\ cli' = IF ValidationFailure(args) # "none"
               THEN Exited(st, ValidationFailure(args))
               ELSE [st EXCEPT !.pc = "connecting"]
     /\ UNCHANGED <<taskVars, hostVars, corrVars, metaVars, authVars, readVars,
                    rendererVars, appsVars>>

\* the transport connects to the server, or fails to
CliConnected(ok) ==
  /\ cli.pc = "connecting"
  /\ cli' = IF ok THEN [cli EXCEPT !.pc = "requesting"]
            ELSE Exited(cli, "connection failed")
  /\ UNCHANGED <<taskVars, hostVars, corrVars, metaVars, authVars, readVars,
                 rendererVars, appsVars>>

\* what the server answers: a result, a tool result marked isError, or a
\* JSON-RPC error
CliOutcomes == {"result", "isError result", "protocol error"}

\* the response to the request of --method arrives
CliResponse(outcome) ==
  /\ cli.pc = "requesting"
  /\ outcome = "isError result" => cli.args.method = "tools/call"
  /\ cli' = Exited(cli, IF outcome = "protocol error" THEN outcome ELSE "none")
  /\ UNCHANGED <<taskVars, hostVars, corrVars, metaVars, authVars, readVars,
                 rendererVars, appsVars>>

\* ------------------------------------------------------- specifications
Init ==
  /\ InitTask /\ InitHost /\ InitCorr /\ InitMeta(NoItem) /\ InitAuth(FALSE)
  /\ InitReads /\ InitRenderer /\ InitApps /\ InitCli

\* the page loads with or without tokens in sessionStorage
InitAuthAny ==
  /\ InitTask /\ InitHost /\ InitCorr /\ InitMeta(NoItem) /\ InitReads
  /\ InitRenderer /\ InitApps /\ InitCli
  /\ \E tokens \in BOOLEAN : InitAuth(tokens)

\* the OAuth debug flow
NextAuth ==
  \/ \E authorizationCode \in {"", "code"}, errorMsg \in {"", "access_denied"},
        restored \in RestoredInputs :
       OnOAuthDebugConnect(authorizationCode, errorMsg, restored)
  \/ \E outcome \in Outcomes : ExecuteStepReturns(outcome)
  \/ LoadOAuthTokens
  \/ \E outcome \in Outcomes : DebuggerExecuteStep(outcome)
  \/ DebuggerReset

SpecAuth == InitAuthAny /\ [][NextAuth]_vars

\* an awaited executeStep settles
FairSpecAuth ==
  SpecAuth /\ WF_vars(\E outcome \in Outcomes : ExecuteStepReturns(outcome))

ServerPoll ==
  \/ \E c \in Calls : ServerHandleCall(c)
  \/ \E t \in TaskIds, s \in Status : ServerStep(t, s, FALSE)
  \/ \E c \in Calls : ServerHandleGet(c)
  \/ \E c \in Calls : ServerHandleResult(c)

\* callTool with its poll loop, and what it starts
\* Tool calls issued while an earlier call's poll loop is still running.
NextLoops ==
  \/ \E c \in Loops, runAsTask \in BOOLEAN : CallTool(c, runAsTask)
  \/ \E c \in Loops : CallToolResponse(c)
  \/ \E c \in Loops : PollTimer(c)
  \/ \E c \in Loops : PollResponse(c)
  \/ \E c \in Loops : TaskResultResponse(c)
  \/ \E ok \in BOOLEAN : ListTasksResponse(ok)
  \/ \E c \in Loops : ServerHandleCall(c)
  \/ \E t \in Loops, s \in Status : ServerStep(t, s, FALSE)
  \/ \E c \in Loops : ServerHandleGet(c)
  \/ \E c \in Loops : ServerHandleResult(c)

SpecLoops == Init /\ [][NextLoops]_vars

NextPoll ==
  \/ \E c \in Calls, runAsTask \in BOOLEAN : CallTool(c, runAsTask)
  \/ \E c \in Calls : CallToolResponse(c)
  \/ \E c \in Calls : PollTimer(c)
  \/ \E c \in Calls : PollResponse(c)
  \/ \E c \in Calls : TaskResultResponse(c)
  \/ \E ok \in BOOLEAN : ListTasksResponse(ok)
  \/ ServerPoll

\* the Tasks tab, and the status notifications of the server
NextTasksTab ==
  \/ \E t \in TaskIds, s \in Status : ServerStep(t, s, TRUE)
  \/ OnNotification
  \/ ListTasksClick
  \/ ClearTasks
  \/ \E i \in 1..MaxCalls : SelectTask(i)
  \/ \E t \in TaskIds : HandleCancel(t)
  \/ \E t \in TaskIds, response \in Status \cup {"error"}, push \in BOOLEAN :
       CancelTaskResponse(t, response, push)

NextTask == NextPoll \/ NextTasksTab

\* the sampling and elicitation requests
NextHost ==
  \/ \E caps \in [connected : {TRUE}, resources : BOOLEAN, tools : BOOLEAN] :
       Connect(caps)
  \/ \E tab \in Tabs : SetActiveTab(tab)
  \/ ReadResource
  \/ OnPendingRequest
  \/ OnElicitationRequest
  \/ NavTimerFires
  \/ \E id \in RequestIds : HandleApproveSampling(id)
  \/ \E id \in RequestIds : HandleRejectSampling(id)
  \/ \E id \in RequestIds : HandleResolveElicitation(id)

\* the page loads with any "lastMetadata" item in localStorage
InitStored ==
  /\ InitTask /\ InitHost /\ InitCorr /\ InitAuth(FALSE) /\ InitReads
  /\ InitRenderer /\ InitApps /\ InitCli
  /\ \E item \in StoredItems : InitMeta(item)

\* request metadata: the Metadata tab, the entries of ToolsTab, a tool call
NextMeta ==
  \/ \E newMetadata \in MetadataInputs : HandleMetadataChange(newMetadata)
  \/ \E entries \in EntriesInputs : SetMetadataEntries(entries)
  \/ \E c \in Calls : CallTool(c, FALSE)
  \/ \E c \in Calls : ServerHandleCall(c)
  \/ \E c \in Calls : CallToolResponse(c)

SpecMeta == InitStored /\ [][NextMeta]_vars

\* Several tool calls issued one after another under the configured metadata.
NextTokens ==
  \/ \E newMetadata \in MetadataInputs : HandleMetadataChange(newMetadata)
  \/ \E entries \in EntriesInputs : SetMetadataEntries(entries)
  \/ \E c \in Loops : CallTool(c, FALSE)
  \/ \E c \in Loops : ServerHandleCall(c)
  \/ \E c \in Loops : CallToolResponse(c)

SpecTokens == InitStored /\ [][NextTokens]_vars

\* a tool call and resource reads from the Resources and the Tools tab
NextErr ==
  \/ \E caps \in [connected : {TRUE}, resources : BOOLEAN, tools : BOOLEAN] :
       Connect(caps)
  \/ \E tab \in Tabs : SetActiveTab(tab)
  \/ \E c \in Calls : CallTool(c, FALSE)
  \/ \E c \in Calls : ServerHandleCall(c)
  \/ \E c \in Calls : CallToolResponse(c)
  \/ \E from \in ReadingTabs : OnReadResource(from)
  \/ \E from \in ReadingTabs, ok \in BOOLEAN : ReadResourceResponse(from, ok)

SpecErr == Init /\ [][NextErr]_vars

\* AppRenderer: the props change, the requests of runTool settle in any order
NextRenderer ==
  \/ \E client \in BOOLEAN, name \in AppTools, input \in AppInputs :
       RendererEffect(client, name, input)
  \/ \E r \in RunIds, ok \in BOOLEAN : RunToolSettles(r, ok)

SpecRenderer == Init /\ [][NextRenderer]_vars

\* AppsTab: the tool list and the prefilled call change, the user selects,
\* edits, launches and closes, the launches settle in any order
NextApps ==
  \/ \E available \in SUBSET UiTools : ToolsChange(available)
  \/ \E call \in PrefilledInputs : PrefilledToolCallChanges(call)
  \/ SetParams
  \/ \E t \in UiTools : HandleSelectTool(t)
  \/ HandleDeselectTool
  \/ HandleCloseApp
  \/ HandleOpenApp
  \/ \E r \in OpenRunIds, ok \in BOOLEAN : LaunchSettles(r, ok)

SpecApps == Init /\ [][NextApps]_vars

\* the steps of an invocation after its arguments passed validation
NextCliRuns ==
  \/ \E ok \in BOOLEAN : CliConnected(ok)
  \/ \E outcome \in CliOutcomes : CliResponse(outcome)

\* invocations that differ in their --header entry
HeaderArgs == {[BaseArgs EXCEPT !.header = h] : h \in HeaderInputs}

SpecCliHeader ==
  Init /\ [][(\E args \in HeaderArgs : RunCli(args)) \/ NextCliRuns]_vars

\* invocations that differ in --config, --server and --method
ConfigArgs ==
  {[BaseArgs EXCEPT !.target = "none", !.transport = "", !.config = c,
                    !.server = n, !.method = m, !.toolName = "echo"] :
     c \in ConfigInputs, n \in ServerInputs, m \in Methods}

SpecCliConfig ==
  Init /\ [][(\E args \in ConfigArgs : RunCli(args)) \/ NextCliRuns]_vars

\* invocations that differ in every argument; the --header entries are those
\* of the header tests
HeaderExamples ==
  {NoHeader, <<"a">>, <<"a", ":", "a">>, <<":", " ", "a">>, <<"a", ":">>}
CliArgs ==
  [target : {"none", "command", "url"},
   transport : {"", "sse", "http"},
   method : {"", "nonexistent/method"} \cup Methods,
   toolName : {"", "echo"},
   header : HeaderExamples,
   config : {NoConfig, [present |-> TRUE, mcpServers |-> {"server1"}],
             [present |-> TRUE, mcpServers |-> {"server1", "server2"}]},
   server : {"", "server1"}]

SpecCli == Init /\ [][(\E args \in CliArgs : RunCli(args)) \/ NextCliRuns]_vars

SpecPoll == Init /\ [][NextPoll]_vars

SpecTask == Init /\ [][NextTask]_vars

SpecHost == Init /\ [][NextHost]_vars

\* the Session's request correlation
NextCorr ==
  \/ Request
  \/ \E id \in SessionIds, isError \in BOOLEAN : ServerRespond(id, isError)
  \/ \E m \in Messages : OnResponse(m)
  \/ \E id \in SessionIds : CancelRequest(id)
  \/ TransportClose

SpecCorr == Init /\ [][NextCorr]_vars

\* timers fire, the server answers every request, and a response that has
\* arrived is handled
FairTask ==
  /\ \A c \in Calls :
       /\ WF_vars(PollTimer(c))
       /\ WF_vars(ServerHandleGet(c))
       /\ SF_vars(PollResponse(c))
       /\ WF_vars(ServerHandleResult(c))
       /\ SF_vars(TaskResultResponse(c))
  /\ WF_vars(\E ok \in BOOLEAN : ListTasksResponse(ok))

FairSpecTask == SpecTask /\ FairTask

\* ================================================================ claims
StatusOf(ts, t) == FindTask(ts, t).status

\* C1: once the record of a task is completed, failed or cancelled, no
\* notifications/tasks/status push for that task makes it working or
\* input_required again.
C1_TerminalNeverReverted ==
  [][OnNotification =>
       \A t \in TaskIds :
         StatusOf(tasks, t) \in Terminal => StatusOf(tasks', t) \in Terminal]_vars

\* C3: a tasks/get response with a non-terminal status sends the loop back to
\* sleep however many polls it has made, the timer then issues one tasks/get,
\* a response with a terminal status ends the polling, and after it no
\* tasks/get is issued for that task.
C3_PollUntilTerminal ==
  [][\A c \in Calls :
       /\ (PollResponse(c) /\ calls[c].resp \in NonTerminal)
            => calls'[c].pc = "sleep"
       /\ (PollResponse(c) /\ calls[c].resp \in Terminal)
            => calls'[c].pc \in {"resultWait", "done"}
       /\ calls[c].pc = "sleep"
            => calls'[c].pc \in {"sleep", "getWait"}
       /\ (calls[c].sawTerminal /\ calls[c].pc # "getWait")
            => calls'[c].pc # "getWait"]_vars

C3_Witness ==
  \E c \in Calls :
    calls[c].pc = "done" /\ calls[c].sawTerminal /\ calls[c].polls = MaxPolls

\* C4: a failed tasks/get or tasks/result ends the loop in that step with
\* an error-marked result set by the loop's own catch, sends no request, and
\* the call never issues a request afterwards.
C4_PollErrorEndsLoop ==
  [][\A c \in Calls :
       /\ (calls[c].pc \in {"getWait", "resultWait"} /\ calls[c].resp = "error"
           /\ calls'[c] # calls[c])
            => /\ calls'[c].pc = "done"
               /\ toolResult' = Result("pollError", TRUE, "none")
               /\ lists' = lists
               /\ ~isPollingTask'
       /\ calls[c].pc = "done" => calls'[c] = calls[c]]_vars

C4_Witness ==
  \E c \in Calls :
    /\ calls[c].pc = "done" /\ calls[c].polls > 0 /\ ~calls[c].sawTerminal
    /\ toolResult = Result("pollError", TRUE, "none")

\* C5: when cancelTask has succeeded for a task whose poll loop is in
\* progress, that loop ends.
C5_CancelEndsPoll ==
  \A c \in Calls : (cancelOk[c] /\ PollActive(c)) ~> ~PollActive(c)

C5_Witness ==
  \E c \in Calls :
    /\ cancelOk[c] /\ calls[c].pc = "done"
    /\ toolResult.kind = "taskEnded" /\ toolResult.status = "cancelled"

\* C6: cancelTask for a task whose record is already completed, failed or
\* cancelled leaves the record as it is and reports no error.
C6_CancelTerminalIsNoOp ==
  [][\A t \in TaskIds :
       ((\E r \in Status \cup {"error"}, p \in BOOLEAN :
            CancelTaskResponse(t, r, p))
        /\ StatusOf(tasks, t) \in Terminal)
         => (tasks' = tasks /\ errors'.tasks # "err")]_vars

Occurrences(list, id) == Cardinality({i \in DOMAIN list : list[i].id = id})

C2_SettledExactlyOnce ==
  \A id \in RequestIds :
    LET n == Occurrences(pendingSampleRequests, id)
               + Occurrences(pendingElicitationRequests, id)
        k == resolveCalls[id] + rejectCalls[id]
    IN IF id >= nextRequestId THEN n = 0 /\ k = 0
       ELSE (n = 1 /\ k = 0) \/ (n = 0 /\ k = 1)

C2_Witness ==
  /\ nextRequestId = MaxRequests
  /\ pendingSampleRequests = <<>> /\ pendingElicitationRequests = <<>>
  /\ \E id \in RequestIds : resolveCalls[id] = 1
  /\ \E id \in RequestIds : rejectCalls[id] = 1

\* C8: whatever the order of arrival, a caller's promise is resolved only
\* with the payload of the response to its own request, and every response
\* in flight can be handled at once, whichever other requests are pending.
C8_ResponsesMatchedById ==
  /\ \A id \in SessionIds :
       \A i \in DOMAIN settlements[id] :
         settlements[id][i].how = "resolved"
           => settlements[id][i].with = PayloadOf(id)
  /\ \A m \in inbound :
       m.id \in pendingTable => ENABLED (OnResponse(m) /\ m.id \notin pendingTable')

C8_Witness ==
  /\ settlements[MaxIds] = <<Resolved(PayloadOf(MaxIds))>>
  /\ settlements[1] = NotSettled
  /\ 1 \in pendingTable
  /\ \E m \in inbound : m.id = 2

\* C9: no request is resolved or rejected more than once, whatever the
\* interleaving of responses, cancellation and transport close.
C9_SettledAtMostOnce ==
  \A id \in SessionIds :
    /\ Len(settlements[id]) <= 1
    /\ id \in pendingTable => settlements[id] = NotSettled

C9_Witness ==
  \E id \in SessionIds :
    /\ settlements[id] = <<Rejected("CancelledError")>>
    /\ \E m \in inbound : m.id = id
    /\ sessionStatus = "error"

\* C10: when the transport closes, every request pending at that moment is
\* rejected with ConnectionLostError, the pending table is empty afterwards
\* and the Session is in status error.
C10_CloseRejectsAllPending ==
  [][TransportClose =>
       /\ \A id \in pendingTable :
            settlements'[id] = <<Rejected("ConnectionLostError")>>
       /\ pendingTable' = {}
       /\ sessionStatus' = "error"]_vars

C10_Witness ==
  /\ sessionStatus = "error"
  /\ \A id \in SessionIds : settlements[id] = <<Rejected("ConnectionLostError")>>

\* C11: pending entries have distinct ids, and a handler that settles the
\* entry with one id calls only that entry's callback and removes only that
\* entry: every other entry keeps its place in its list and none of its
\* callbacks is called.
PendingCount(id) ==
  Occurrences(pendingSampleRequests, id)
    + Occurrences(pendingElicitationRequests, id)

C11_PendingEntriesIndependent ==
  [][/\ \A id \in RequestIds : PendingCount(id) <= 1
     /\ \A id \in RequestIds :
          (HandleApproveSampling(id) \/ HandleRejectSampling(id)
             \/ HandleResolveElicitation(id))
            => /\ \A other \in RequestIds \ {id} :
                    /\ resolveCalls'[other] = resolveCalls[other]
                    /\ rejectCalls'[other] = rejectCalls[other]
               /\ pendingSampleRequests' \in
                    {pendingSampleRequests, RemoveById(pendingSampleRequests, id)}
               /\ pendingElicitationRequests' \in
                    {pendingElicitationRequests,
                     RemoveById(pendingElicitationRequests, id)}]_vars

C11_Witness ==
  /\ Len(pendingSampleRequests) = 1
  /\ pendingSampleRequests[1].id = 0
  /\ resolveCalls[0] = 0 /\ rejectCalls[0] = 0
  /\ rejectCalls[1] = 1

\* C12: when the response to a tools/call sent with the task parameter is a
\* direct result, the call ends there with that response as the tool result:
\* no task exists for it, the collection is untouched, polling is not
\* flagged, and the call never issues tasks/get or tasks/result.
C12_DirectResultShortCircuits ==
  [][\A c \in Calls :
       /\ (CallToolResponse(c) /\ calls[c].asTask /\ calls[c].resp = "direct")
            => /\ calls'[c].pc = "done"
               /\ calls'[c].taskId = 0 /\ calls'[c].polls = 0
               /\ toolResult' = Result("direct", FALSE, "none")
               /\ tasks' = tasks /\ lists' = lists
               /\ isPollingTask' = isPollingTask
       /\ (calls[c].pc = "done" /\ calls[c].taskId = 0)
            => (calls'[c].pc = "done" /\ calls'[c].polls = 0)]_vars

C12_Witness ==
  \E c \in Calls :
    /\ calls[c].pc = "done" /\ calls[c].asTask /\ calls[c].taskId = 0
    /\ toolResult = Result("direct", FALSE, "none")
    /\ ~isPollingTask

\* C13: tasks/result is requested in the step that handles a tasks/get
\* response with status completed and in no other step; once its response is
\* handled the call is over and requests nothing more, so it is requested
\* once; and the payload of a successful response is the tool result the
\* call ends with.
C13_ResultFetchedOnceOnCompleted ==
  [][\A c \in Calls :
       /\ (calls'[c].pc = "resultWait" /\ calls[c].pc # "resultWait")
            <=> (PollResponse(c) /\ calls[c].resp = "completed")
       /\ calls[c].pc = "resultWait"
            => calls'[c].pc \in {"resultWait", "done"}
       /\ calls[c].pc = "done" => calls'[c].pc = "done"
       /\ (TaskResultResponse(c) /\ calls[c].resp = "result")
            => /\ toolResult' = Result("result", FALSE, "completed")
               /\ calls'[c].pc = "done"]_vars

C13_Witness ==
  \E c \in Calls :
    /\ calls[c].pc = "done" /\ calls[c].sawTerminal
    /\ toolResult = Result("result", FALSE, "completed")

\* C14: when a tasks/get response has status failed or cancelled, the call
\* ends in that step with a result marked isError whose text holds that
\* status and the response's status message (a fixed placeholder when the
\* response has none).
C14_FailedOrCancelledIsErrorResult ==
  [][\A c \in Calls :
       (PollResponse(c) /\ calls[c].resp \in {"failed", "cancelled"})
         => /\ calls'[c].pc = "done"
            /\ toolResult'.isError
            /\ toolResult'.text[2] = calls[c].resp
            /\ toolResult'.text[3] =
                 (IF calls[c].msg = "" THEN "No additional information"
                  ELSE calls[c].msg)]_vars

C14_Witness ==
  \E c \in Calls :
    /\ calls[c].pc = "done"
    /\ toolResult.isError
    /\ toolResult.text = <<"Task", "failed", "quota exceeded">>

AllKeysAllowed(md) == \A k \in DOMAIN md : KeyAllowed(k)

C16_NoReservedKeySentOrStored ==
  [][/\ AllKeysAllowed(metadata) /\ AllKeysAllowed(metadata')
     /\ \A i \in DOMAIN sentMeta' : AllKeysAllowed(sentMeta'[i])
     /\ localStorage' # localStorage => AllKeysAllowed(localStorage'.value)]_vars

C16_Witness ==
  /\ \E k \in DOMAIN localStorage.value : ~KeyAllowed(k)
  /\ \E k \in DOMAIN localStorage.value : k \in DOMAIN metadata
  /\ sentMeta # <<>>
  /\ DOMAIN ToolMetadata(metadataEntries) # {}

\* C17: a flow resumed from a restored state with a fresh authorization code
\* ends; each step of it that succeeds ends the loop with the flow state in
\* step complete, and issues no authorization redirect.
C17_ResumeEndsInComplete ==
  /\ (resume.pc = "executing") ~> (resume.pc = "idle")
  /\ [][ExecuteStepReturns("ok") =>
          /\ resume'.pc = "idle"
          /\ authState'.oauthStep = "complete"
          /\ redirects' = redirects]_vars

C17_Witness ==
  /\ resume.pc = "idle"
  /\ authState.oauthStep = "complete"
  /\ authState.authorizationCode = "code"
  /\ authState.statusMessage = "success"
  /\ redirects = 0

\* C18: a step of the resumed flow that fails ends the loop in that step and
\* leaves the error it threw in the flow state, with an error status message;
\* nothing is executed or redirected by the failure, and while no resumed flow
\* is in progress no step can return, so none is executed again unless
\* onOAuthDebugConnect is invoked anew.
C18_FailedStepIsNotRetried ==
  [][/\ \A e \in StepErrors :
          ExecuteStepReturns(e)
            => /\ resume'.pc = "idle"
               /\ authState'.latestError = e
               /\ authState'.statusMessage = "error"
               /\ authState'.oauthStep = authState.oauthStep
               /\ redirects' = redirects /\ sessionTokens' = sessionTokens
     /\ resume.pc = "idle"
          => ~ENABLED (\E o \in Outcomes : ExecuteStepReturns(o))]_vars

C18_Witness ==
  /\ resume.pc = "idle"
  /\ authState.latestError = "invalid_grant"
  /\ authState.statusMessage = "error"
  /\ ~authState.isInitiatingAuth

\* C19 as claimed: the flow state changes only in a step that applies what
\* executeStep produced, or to put the flow at its initial step.
C19_OnlyExecuteStepWrites ==
  [][authState' # authState =>
       \/ \E o \in Outcomes : DebuggerExecuteStep(o) \/ ExecuteStepReturns(o)
       \/ authState'.oauthStep = "idle"]_vars

\* C19 amended: the step of the flow state changes only to the step
\* executeStep produced (applied by the debugger, or copied from the resumed
\* flow once it is complete), to token_request together with the
\* authorization code when the redirect returns without a restored state, to
\* complete together with the tokens found in sessionStorage, or to idle when
\* the flow is started afresh.
C19_StepWrittenByMachineOrSeed ==
  [][authState'.oauthStep # authState.oauthStep =>
       \/ /\ DebuggerExecuteStep("ok")
          /\ authState'.oauthStep = StepUpdates(authState).oauthStep
       \/ /\ ExecuteStepReturns("ok")
          /\ authState'.oauthStep = StepUpdates(resume.currentState).oauthStep
       \/ /\ \E restored \in RestoredInputs :
               OnOAuthDebugConnect("code", "", restored)
          /\ authState'.oauthStep = "token_request"
          /\ authState'.authorizationCode = "code"
       \/ /\ LoadOAuthTokens
          /\ authState'.oauthStep = "complete"
          /\ authState'.oauthTokens = "tokens"
       \/ /\ DebuggerReset
          /\ authState'.oauthStep = "idle"]_vars

C19_Witness ==
  /\ authState.oauthStep = "token_request"
  /\ authState.authorizationCode = "code"
  /\ authState.latestError = "access_denied"
  /\ redirects = 0

\* the step leaves every entry of errors but that of tab as it was
OtherEntriesUnchanged(tab) ==
  \A k \in DOMAIN errors \ {tab} : errors'[k] = errors[k]

\* C20: a per-request failure stays with the code path that issued it: a
\* failed tools/call ends callTool with an error-marked tool result, and a
\* failing request changes no error entry but that of the tab that issued it
C20_FailureStaysWithIssuingTab ==
  [][/\ \A c \in Calls :
          (CallToolResponse(c) /\ calls[c].resp = "error")
            => /\ toolResult'.isError
               /\ calls'[c].pc = "done"
               /\ OtherEntriesUnchanged("tools")
     /\ \A from \in ReadingTabs :
          ReadResourceResponse(from, FALSE) => OtherEntriesUnchanged(from)]_vars

\* the step is the settling of a run that is not the current one
StaleSettles ==
  \E r \in RunIds, ok \in BOOLEAN :
    /\ RunToolSettles(r, ok)
    /\ runs[r].aborted \/ r # latestRunId

SupersededSettles ==
  \E r \in OpenRunIds, ok \in BOOLEAN :
    LaunchSettles(r, ok) /\ r # appsTab.openAppRunId

\* C22: the outcome of an app launch is applied only if the launch is still
\* the latest one: the settling of a superseded launch changes nothing of
\* AppsTab, and a displayed launch result is that of the latest run
C22_SupersededLaunchChangesNothing ==
  /\ [](appsTab.submittedToolResult.kind = "result"
          => /\ appsTab.submittedToolResult.id = appsTab.openAppRunId
             /\ launches[appsTab.openAppRunId].pc = "done"
             /\ appsTab.submittedParams =
                  launches[appsTab.openAppRunId].runParams)
  /\ [][SupersededSettles => appsTab' = appsTab]_vars

C22_Witness ==
  /\ appsTab.submittedToolResult.kind \in {"result", "prefilled"}
  /\ appsTab.isAppOpen
  /\ \E r \in OpenRunIds : r < appsTab.openAppRunId /\ launches[r].ignored

\* C28: isOpeningApp is true exactly while the tool call of the latest app
\* launch is in flight
C28_OpeningWhileLatestLaunchInFlight ==
  appsTab.isOpeningApp
    <=> /\ appsTab.openAppRunId \in OpenRunIds
        /\ launches[appsTab.openAppRunId].pc = "sent"

C28_Witness ==
  /\ appsTab.isOpeningApp
  /\ \E r \in OpenRunIds : r < appsTab.openAppRunId /\ launches[r].ignored

Spaces(n) == [k \in 1..n |-> " "]
SplitsAtFirstColon(str, name, value) ==
  /\ \A k \in DOMAIN name : name[k] # ":"
  /\ \E a, b, c, d \in 0..Len(str) :
       str = Spaces(a) \o name \o Spaces(b) \o <<":">> \o Spaces(c) \o value
               \o Spaces(d)

\* C25: a --header entry is split at its first colon and both parts are
\* trimmed; it is rejected as an invalid header format exactly if it has no
\* colon or its trimmed name or trimmed value is empty
C25_HeaderSplitAtFirstColon ==
  (cli.pc # "idle" /\ cli.args.header # NoHeader)
    => LET str == cli.args.header
           rejected == cli.pc = "exited" /\ cli.stderr = "Invalid header format"
       IN /\ rejected
               <=> \/ \A i \in DOMAIN str : str[i] # ":"
                   \/ \A j \in 1..(FirstColon(str) - 1) : str[j] = " "
                   \/ \A j \in (FirstColon(str) + 1)..Len(str) : str[j] = " "
          /\ rejected => cli.exitCode # 0
          /\ ~rejected
               => /\ cli.headers.ok
                  /\ cli.headers.name # <<>> /\ cli.headers.value # <<>>
                  /\ " " \notin {Head(cli.headers.name), Head(cli.headers.value)}
                  /\ cli.headers.name[Len(cli.headers.name)] # " "
                  /\ cli.headers.value[Len(cli.headers.value)] # " "
                  /\ SplitsAtFirstColon(str, cli.headers.name, cli.headers.value)

C25_Witness ==
  /\ cli.pc = "connecting"
  /\ cli.args.header = <<"a", ":", "a", ":">>
  /\ cli.headers.value = <<"a", ":">>

\* C26: with --config and no --server a server is selected exactly if the
\* config has exactly one server; with several, even if one is named
\* default-server, the CLI fails
C26_AutoSelectOnlySingleServer ==
  (cli.pc # "idle" /\ cli.args.config.present /\ cli.args.server = "")
    => /\ cli.server.ok <=> Cardinality(cli.args.config.mcpServers) = 1
       /\ cli.server.ok => cli.server.name \in cli.args.config.mcpServers
       /\ ~cli.server.ok => cli.pc = "exited" /\ cli.exitCode # 0

C26_Witness ==
  /\ cli.pc = "exited"
  /\ cli.args.config.mcpServers = {"default-server", "server1"}
  /\ cli.args.server = ""
  /\ cli.exitCode = 1

\* C24: the CLI exits with code 0 exactly when the invocation succeeds, with
\* the JSON result on standard-out, and exits non-zero with diagnostic text
\* on standard-error on a validation, connection or protocol failure
C24_ExitCodeZeroIffSuccess ==
  cli.pc = "exited"
    => /\ cli.exitCode = 0 <=> cli.failure = "none"
       /\ cli.exitCode = 0 => cli.stdout = "json"
       /\ cli.exitCode # 0 => cli.stderr # "" /\ cli.stdout = ""
       /\ cli.failure = "none" <=> /\ ValidationFailure(cli.args) = "none"
                                   /\ cli.stdout = "json"

C24_Witness ==
  /\ cli.pc = "exited"
  /\ cli.failure = "protocol error"
  /\ cli.exitCode = 1

C29_ProgressTokensFresh ==
  /\ \A i \in DOMAIN sentMeta : sentMeta[i][ProgressTokenKey] = i - 1
  /\ \A i, j \in DOMAIN sentMeta :
       i # j => sentMeta[i][ProgressTokenKey] # sentMeta[j][ProgressTokenKey]

\* C30: for every pending elicitation entry, the id carried inside its
\* request payload equals the entry's own id.
C30_ElicitationPayloadIdIsEntryId ==
  \A i \in DOMAIN pendingElicitationRequests :
    pendingElicitationRequests[i].request.id =
      pendingElicitationRequests[i].id

====
